---- MODULE Spec2Model ----
(***************************************************************************)
(* A model of the chess rules engine of src/chess_board.py: the BoardState *)
(* aggregate, its attack detector, move generator, legality filter, the    *)
(* two move entry points, and the undo/redo history manager.               *)
(*                                                                         *)
(* Squares are (row, col) pairs with row 0 = rank 8 and col 0 = file a, as *)
(* in the source.  The grid is a sequence of 8 rows of 8 cells, so that    *)
(* the source's board[row][col] is board[row + 1][col + 1] here.           *)
(***************************************************************************)
EXTENDS Integers, Sequences, FiniteSets, TLC

VARIABLES
    board,                      \* 8x8 grid of pieces / NoPiece
    current_turn,               \* "w" or "b"
    halfmove_clock,
    fullmove_number,
    castling_rights,            \* record of four booleans
    en_passant_target,          \* <<row, col>> or None
    is_check,
    is_in_checkmate,
    is_in_stalemate,
    move_history,               \* sequence of Move records
    last_move,                  \* <<from, to>> or None
    undo_stack,                 \* sequence of snapshots
    redo_stack,                 \* sequence of snapshots
    hanging_pieces_cache_valid,
    exchange_cache_valid,
    knight_fork_cache_valid,
    cached_hanging_pieces_white,    \* sequence of squares
    cached_hanging_pieces_black,    \* sequence of squares
    cached_interesting_squares,     \* sequence of squares
    cached_attackers_defenders,     \* square -> <<attackers, defenders>>
    cached_knight_fork_squares_white,   \* sequence of squares
    cached_knight_fork_squares_black,   \* sequence of squares
    preview_board_state,        \* <<>> or <<the caller's preview BoardState>>
    op,                         \* name of the most recent call
    ret,                        \* its return value
    streak,                     \* history: FENs along the latest run of moves
    back,                       \* history: moves of the run now undone
    rewound                     \* history: the whole run has been undone

vars == <<board, current_turn, halfmove_clock, fullmove_number,
          castling_rights, en_passant_target, is_check, is_in_checkmate,
          is_in_stalemate, move_history, last_move, undo_stack, redo_stack,
          hanging_pieces_cache_valid, exchange_cache_valid,
          knight_fork_cache_valid, cached_hanging_pieces_white,
          cached_hanging_pieces_black, cached_interesting_squares,
          cached_attackers_defenders, cached_knight_fork_squares_white,
          cached_knight_fork_squares_black, preview_board_state,
          op, ret, streak, back,
          rewound>>

-----------------------------------------------------------------------------
(* Data model *)

WHITE == "w"
BLACK == "b"
PAWN == "P"
ROOK == "R"
KNIGHT == "N"
BISHOP == "B"
QUEEN == "Q"
KING == "K"

PieceType == {PAWN, ROOK, KNIGHT, BISHOP, QUEEN, KING}
Color == {WHITE, BLACK}

\* Python's None for an optional square or pair of squares.
None == <<>>

\* Python's None for an optional promotion type (a string, so that it
\* compares with the piece types).
NoPromotion == "None"

\* Python's None in a board cell (a record, so that cells compare).
NoPiece == [type |-> "-", color |-> "-", has_moved |-> FALSE]

Piece(type, color, has_moved) ==
    [type |-> type, color |-> color, has_moved |-> has_moved]

CastlingRights ==
    [white_kingside |-> TRUE, white_queenside |-> TRUE,
     black_kingside |-> TRUE, black_queenside |-> TRUE]

rights_can_castle(cr, color, kingside) ==
    IF color = WHITE
    THEN (IF kingside THEN cr.white_kingside ELSE cr.white_queenside)
    ELSE (IF kingside THEN cr.black_kingside ELSE cr.black_queenside)

lose_castling_right(cr, color, kingside) ==
    IF color = WHITE
    THEN (IF kingside THEN [cr EXCEPT !.white_kingside = FALSE]
                      ELSE [cr EXCEPT !.white_queenside = FALSE])
    ELSE (IF kingside THEN [cr EXCEPT !.black_kingside = FALSE]
                      ELSE [cr EXCEPT !.black_queenside = FALSE])

\* A variant that builds the rights anew, so that the other colour has
\* both rights again.
fresh_rights_without(cr, color) ==
    IF color = WHITE
    THEN [CastlingRights EXCEPT !.white_kingside = FALSE,
                                !.white_queenside = FALSE]
    ELSE [CastlingRights EXCEPT !.black_kingside = FALSE,
                                !.black_queenside = FALSE]

lose_all_castling_rights(cr, color) ==
    IF color = WHITE
    THEN [cr EXCEPT !.white_kingside = FALSE, !.white_queenside = FALSE]
    ELSE [cr EXCEPT !.black_kingside = FALSE, !.black_queenside = FALSE]

Move(from_square, to_square, piece, captured_piece, promotion, move_number) ==
    [from_square |-> from_square, to_square |-> to_square, piece |-> piece,
     captured_piece |-> captured_piece, promotion |-> promotion,
     is_castle |-> FALSE, castle_kingside |-> FALSE, is_en_passant |-> FALSE,
     is_double_pawn_push |-> FALSE, move_number |-> move_number]

opposite(color) == IF color = WHITE THEN BLACK ELSE WHITE

-----------------------------------------------------------------------------
(* Board Position Store *)

\* A variant of piece_order with king and queen exchanged.
piece_order_king_first ==
    <<ROOK, KNIGHT, BISHOP, KING, QUEEN, BISHOP, KNIGHT, ROOK>>

piece_order == <<ROOK, KNIGHT, BISHOP, QUEEN, KING, BISHOP, KNIGHT, ROOK>>

setup_initial_position ==
    [r \in 1..8 |->
        [c \in 1..8 |->
            CASE r = 1 -> Piece(piece_order[c], BLACK, FALSE)
              [] r = 2 -> Piece(PAWN, BLACK, FALSE)
              [] r = 7 -> Piece(PAWN, WHITE, FALSE)
              [] r = 8 -> Piece(piece_order[c], WHITE, FALSE)
              [] OTHER -> NoPiece]]

is_valid_square(row, col) == row >= 0 /\ row < 8 /\ col >= 0 /\ col < 8

get_piece(b, row, col) ==
    IF is_valid_square(row, col) THEN b[row + 1][col + 1] ELSE NoPiece

set_piece(b, row, col, piece) ==
    IF is_valid_square(row, col)
    THEN [b EXCEPT ![row + 1][col + 1] = piece]
    ELSE b

\* All squares in the order of the source's nested loops (row-major).
AllSquares == {<<r, c>> : r \in 0..7, c \in 0..7}

get_king_position(b, color) ==
    LET kings == {s \in AllSquares :
                    /\ b[s[1] + 1][s[2] + 1].type = KING
                    /\ b[s[1] + 1][s[2] + 1].color = color}
    IN IF kings = {} THEN None
       ELSE CHOOSE s \in kings :
              \A t \in kings : s[1] < t[1] \/ (s[1] = t[1] /\ s[2] <= t[2])

-----------------------------------------------------------------------------
(* Attack Detector *)

knight_offsets ==
    {<<-2, -1>>, <<-2, 1>>, <<-1, -2>>, <<-1, 2>>,
     <<1, -2>>, <<1, 2>>, <<2, -1>>, <<2, 1>>}

king_offsets ==
    {<<-1, -1>>, <<-1, 0>>, <<-1, 1>>, <<0, -1>>,
     <<0, 1>>, <<1, -1>>, <<1, 0>>, <<1, 1>>}

rook_directions == {<<0, 1>>, <<0, -1>>, <<1, 0>>, <<-1, 0>>}
bishop_directions == {<<1, 1>>, <<1, -1>>, <<-1, 1>>, <<-1, -1>>}

\* The first occupied square met from (row, col) in direction d holds a
\* piece of by_color whose type is in types.
ray_attacked(b, row, col, by_color, d, types) ==
    \E i \in 1..7 :
        /\ is_valid_square(row + i * d[1], col + i * d[2])
        /\ LET piece == b[row + i * d[1] + 1][col + i * d[2] + 1]
           IN piece.color = by_color /\ piece.type \in types
        /\ \A j \in 1..(i - 1) :
              b[row + j * d[1] + 1][col + j * d[2] + 1] = NoPiece

is_square_attacked(b, row, col, by_color) ==
    LET attack_row == IF by_color = WHITE THEN row + 1 ELSE row - 1
        holds(r, c, type) ==
            /\ is_valid_square(r, c)
            /\ b[r + 1][c + 1].type = type
            /\ b[r + 1][c + 1].color = by_color
    IN \/ \E dc \in {-1, 1} : holds(attack_row, col + dc, PAWN)
       \/ \E d \in king_offsets : holds(row + d[1], col + d[2], KING)
       \/ \E d \in knight_offsets : holds(row + d[1], col + d[2], KNIGHT)
       \/ \E d \in rook_directions :
             ray_attacked(b, row, col, by_color, d, {ROOK, QUEEN})
       \/ \E d \in bishop_directions :
             ray_attacked(b, row, col, by_color, d, {BISHOP, QUEEN})

is_king_in_check(b, color) ==
    LET king_pos == get_king_position(b, color)
    IN IF king_pos = None THEN FALSE
       ELSE is_square_attacked(b, king_pos[1], king_pos[2], opposite(color))

can_castle(b, cr, color, kingside) ==
    LET king_row == IF color = BLACK THEN 0 ELSE 7
        cols == IF kingside THEN {5, 6} ELSE {1, 2, 3}
    IN /\ rights_can_castle(cr, color, kingside)
       /\ ~is_king_in_check(b, color)
       /\ \A col \in cols :
             /\ b[king_row + 1][col + 1] = NoPiece
             /\ ~is_square_attacked(b, king_row, col, opposite(color))

-----------------------------------------------------------------------------
(* Move Generator: pseudo-legal destinations, as sets of squares *)

is_square_empty_or_enemy(b, row, col, color) ==
    /\ is_valid_square(row, col)
    /\ (get_piece(b, row, col) = NoPiece \/ get_piece(b, row, col).color # color)

get_pawn_moves(b, ep, row, col, color) ==
    LET direction == IF color = WHITE THEN -1 ELSE 1
        start_row == IF color = WHITE THEN 6 ELSE 1
        one == is_valid_square(row + direction, col)
                 /\ get_piece(b, row + direction, col) = NoPiece
        forward == IF one THEN {<<row + direction, col>>} ELSE {}
        double ==
            IF /\ one
               /\ row = start_row
               /\ is_valid_square(row + 2 * direction, col)
               /\ get_piece(b, row + 2 * direction, col) = NoPiece
            THEN {<<row + 2 * direction, col>>} ELSE {}
        captures ==
            {<<row + direction, col + dc>> : dc \in
                {dc \in {-1, 1} :
                    /\ is_valid_square(row + direction, col + dc)
                    /\ get_piece(b, row + direction, col + dc) # NoPiece
                    /\ get_piece(b, row + direction, col + dc).color # color}}
        abs_dcol == IF ep = None THEN 0
                    ELSE IF col >= ep[2] THEN col - ep[2] ELSE ep[2] - col
        en_passant ==
            IF ep # None /\ row + direction = ep[1] /\ abs_dcol = 1
            THEN {ep} ELSE {}
    IN forward \cup double \cup captures \cup en_passant

\* Squares reached from (row, col) sliding in direction d: the empty squares
\* up to the first occupied one, and that one if it holds an enemy piece.
ray_moves(b, row, col, color, d) ==
    {<<row + i * d[1], col + i * d[2]>> : i \in
        {i \in 1..7 :
            /\ is_valid_square(row + i * d[1], col + i * d[2])
            /\ b[row + i * d[1] + 1][col + i * d[2] + 1].color # color
            /\ \A j \in 1..(i - 1) :
                  b[row + j * d[1] + 1][col + j * d[2] + 1] = NoPiece}}

get_rook_moves(b, row, col, color) ==
    UNION {ray_moves(b, row, col, color, d) : d \in rook_directions}

get_bishop_moves(b, row, col, color) ==
    UNION {ray_moves(b, row, col, color, d) : d \in bishop_directions}

get_queen_moves(b, row, col, color) ==
    get_rook_moves(b, row, col, color) \cup get_bishop_moves(b, row, col, color)

get_knight_moves(b, row, col, color) ==
    {<<row + d[1], col + d[2]>> : d \in
        {d \in knight_offsets :
            is_square_empty_or_enemy(b, row + d[1], col + d[2], color)}}

get_king_moves(b, cr, row, col, color) ==
    {<<row + d[1], col + d[2]>> : d \in
        {d \in king_offsets :
            is_square_empty_or_enemy(b, row + d[1], col + d[2], color)}}
    \cup (IF can_castle(b, cr, color, TRUE) THEN {<<row, 6>>} ELSE {})
    \cup (IF can_castle(b, cr, color, FALSE) THEN {<<row, 2>>} ELSE {})

-----------------------------------------------------------------------------
(* Legality Filter *)

\* The trial move: the piece is put on the destination and the origin is
\* emptied; nothing else of the grid is touched.
trial_board(b, from_row, from_col, to_row, to_col) ==
    set_piece(set_piece(b, to_row, to_col, get_piece(b, from_row, from_col)),
              from_row, from_col, NoPiece)

\* A variant that does not look at the mover's king.
is_move_legal_unchecked(b, from_row, from_col, to_row, to_col) ==
    get_piece(b, from_row, from_col) # NoPiece

is_move_legal(b, from_row, from_col, to_row, to_col) ==
    ~is_king_in_check(trial_board(b, from_row, from_col, to_row, to_col),
                      get_piece(b, from_row, from_col).color)

pseudo_moves(b, cr, ep, row, col) ==
    LET piece == get_piece(b, row, col)
    IN CASE piece.type = PAWN -> get_pawn_moves(b, ep, row, col, piece.color)
         [] piece.type = ROOK -> get_rook_moves(b, row, col, piece.color)
         [] piece.type = KNIGHT -> get_knight_moves(b, row, col, piece.color)
         [] piece.type = BISHOP -> get_bishop_moves(b, row, col, piece.color)
         [] piece.type = QUEEN -> get_queen_moves(b, row, col, piece.color)
         [] piece.type = KING -> get_king_moves(b, cr, row, col, piece.color)
         [] OTHER -> {}

get_possible_moves(b, cr, ep, row, col) ==
    {m \in pseudo_moves(b, cr, ep, row, col) :
        is_move_legal(b, row, col, m[1], m[2])}

-----------------------------------------------------------------------------
(* Game-Status Evaluator *)

has_legal_move(b, cr, ep, color) ==
    \E s \in AllSquares :
        /\ b[s[1] + 1][s[2] + 1].color = color
        /\ get_possible_moves(b, cr, ep, s[1], s[2]) # {}

\* A variant that counts the moves the legality filter would drop.
is_checkmate_unfiltered(b, cr, ep, color) ==
    /\ is_king_in_check(b, color)
    /\ \A s \in AllSquares :
          b[s[1] + 1][s[2] + 1].color = color =>
              pseudo_moves(b, cr, ep, s[1], s[2]) = {}

is_checkmate(b, cr, ep, color) ==
    is_king_in_check(b, color) /\ ~has_legal_move(b, cr, ep, color)

is_stalemate(b, cr, ep, color) ==
    ~is_king_in_check(b, color) /\ ~has_legal_move(b, cr, ep, color)

-----------------------------------------------------------------------------
(* The BoardState aggregate as a value: the operations below are functions  *)
(* from a BoardState (and arguments) to the BoardState they leave behind.   *)

Self ==
    [board |-> board, current_turn |-> current_turn,
     halfmove_clock |-> halfmove_clock, fullmove_number |-> fullmove_number,
     castling_rights |-> castling_rights,
     en_passant_target |-> en_passant_target,
     is_check |-> is_check, is_in_checkmate |-> is_in_checkmate,
     is_in_stalemate |-> is_in_stalemate,
     move_history |-> move_history, last_move |-> last_move,
     undo_stack |-> undo_stack, redo_stack |-> redo_stack,
     hanging_pieces_cache_valid |-> hanging_pieces_cache_valid,
     exchange_cache_valid |-> exchange_cache_valid,
     knight_fork_cache_valid |-> knight_fork_cache_valid,
     cached_hanging_pieces_white |-> cached_hanging_pieces_white,
     cached_hanging_pieces_black |-> cached_hanging_pieces_black,
     cached_interesting_squares |-> cached_interesting_squares,
     cached_attackers_defenders |-> cached_attackers_defenders,
     cached_knight_fork_squares_white |-> cached_knight_fork_squares_white,
     cached_knight_fork_squares_black |-> cached_knight_fork_squares_black]

\* A freshly constructed BoardState.
NewBoardState ==
    [board |-> setup_initial_position, current_turn |-> WHITE,
     halfmove_clock |-> 0, fullmove_number |-> 1,
     castling_rights |-> CastlingRights,
     en_passant_target |-> None,
     is_check |-> FALSE, is_in_checkmate |-> FALSE,
     is_in_stalemate |-> FALSE,
     move_history |-> <<>>, last_move |-> None,
     undo_stack |-> <<>>, redo_stack |-> <<>>,
     hanging_pieces_cache_valid |-> FALSE,
     exchange_cache_valid |-> FALSE,
     knight_fork_cache_valid |-> FALSE,
     cached_hanging_pieces_white |-> <<>>,
     cached_hanging_pieces_black |-> <<>>,
     cached_interesting_squares |-> <<>>,
     cached_attackers_defenders |-> <<>>,
     cached_knight_fork_squares_white |-> <<>>,
     cached_knight_fork_squares_black |-> <<>>]

\* copy.deepcopy of a BoardState: an equal value sharing nothing.
copy(self) == self

\* A variant of shared_with_copy: what copy.copy would share.
shared_with_shallow_copy ==
    {"board", "castling_rights", "move_history", "undo_stack", "redo_stack",
     "cached_hanging_pieces_white", "cached_hanging_pieces_black",
     "cached_interesting_squares", "cached_attackers_defenders",
     "cached_knight_fork_squares_white", "cached_knight_fork_squares_black"}

\* The components a copy shares with the BoardState it was made from:
\* copy.deepcopy copies every list and object reachable from it.
shared_with_copy == {}

legal_moves(self, row, col) ==
    get_possible_moves(self.board, self.castling_rights,
                       self.en_passant_target, row, col)

\* str(piece): upper case for White, lower case for Black.
lower_case == [P |-> "p", R |-> "r", N |-> "n", B |-> "b", Q |-> "q", K |-> "k"]
piece_str(piece) ==
    IF piece.color = WHITE THEN piece.type ELSE lower_case[piece.type]

file_letter == <<"a", "b", "c", "d", "e", "f", "g", "h">>

\* A variant of fen_row that writes every empty square as "1".
RECURSIVE fen_row_unit_runs(_, _, _)
fen_row_unit_runs(row, col, empty_count) ==
    IF col > 8 THEN ""
    ELSE IF row[col] = NoPiece
         THEN "1" \o fen_row_unit_runs(row, col + 1, empty_count)
         ELSE piece_str(row[col]) \o fen_row_unit_runs(row, col + 1, 0)

\* One rank of the placement field, from cell col on, with empty_count empty
\* squares pending.
RECURSIVE fen_row(_, _, _)
fen_row(row, col, empty_count) ==
    LET pending == IF empty_count > 0 THEN ToString(empty_count) ELSE ""
    IN IF col > 8 THEN pending
       ELSE IF row[col] = NoPiece THEN fen_row(row, col + 1, empty_count + 1)
       ELSE pending \o piece_str(row[col]) \o fen_row(row, col + 1, 0)

RECURSIVE fen_board(_, _)
fen_board(b, r) ==
    IF r = 8 THEN fen_row(b[r], 1, 0)
    ELSE fen_row(b[r], 1, 0) \o "/" \o fen_board(b, r + 1)

get_fen_position(self) ==
    LET cr == self.castling_rights
        letters == (IF cr.white_kingside THEN "K" ELSE "")
                   \o (IF cr.white_queenside THEN "Q" ELSE "")
                   \o (IF cr.black_kingside THEN "k" ELSE "")
                   \o (IF cr.black_queenside THEN "q" ELSE "")
        castling == IF letters = "" THEN "-" ELSE letters
        ep == self.en_passant_target
        ep_target == IF ep # None
                     THEN file_letter[ep[2] + 1] \o ToString(8 - ep[1])
                     ELSE "-"
    IN fen_board(self.board, 1) \o " "
       \o (IF self.current_turn = WHITE THEN "w" ELSE "b") \o " "
       \o castling \o " " \o ep_target \o " "
       \o ToString(self.halfmove_clock) \o " "
       \o ToString(self.fullmove_number)

-----------------------------------------------------------------------------
(* History Manager: snapshots *)

\* The undo stack's cap.
MAX_UNDO == 50

\* A variant without the eviction of the oldest snapshot.
save_state_uncapped(self) ==
    [self EXCEPT
       !.undo_stack = Append(@, [copy(self) EXCEPT !.undo_stack = <<>>,
                                                   !.redo_stack = <<>>]),
       !.redo_stack = <<>>]

\* A variant that keeps the redo stack.
save_state_keeping_redo(self) ==
    LET pushed == Append(self.undo_stack,
                         [copy(self) EXCEPT !.undo_stack = <<>>,
                                            !.redo_stack = <<>>])
    IN [self EXCEPT
          !.undo_stack = IF Len(pushed) > MAX_UNDO THEN Tail(pushed)
                         ELSE pushed]

\* A variant that evicts the newest snapshot instead of the oldest.
save_state_evicting_newest(self) ==
    LET state_copy == [copy(self) EXCEPT !.undo_stack = <<>>,
                                         !.redo_stack = <<>>]
        pushed == Append(self.undo_stack, state_copy)
    IN [self EXCEPT
          !.undo_stack = IF Len(pushed) > MAX_UNDO
                         THEN SubSeq(pushed, 1, MAX_UNDO)
                         ELSE pushed,
          !.redo_stack = <<>>]

\* A variant whose snapshot keeps the stacks of the state it copies.
save_state_with_stacks(self) ==
    LET state_copy == copy(self)
        pushed == Append(self.undo_stack, state_copy)
    IN [self EXCEPT
          !.undo_stack = IF Len(pushed) > MAX_UNDO THEN Tail(pushed)
                         ELSE pushed,
          !.redo_stack = <<>>]

save_state_for_undo(self) ==
    LET state_copy == [copy(self) EXCEPT !.undo_stack = <<>>,
                                         !.redo_stack = <<>>]
        pushed == Append(self.undo_stack, state_copy)
    IN [self EXCEPT
          !.undo_stack = IF Len(pushed) > MAX_UNDO THEN Tail(pushed)
                         ELSE pushed,
          !.redo_stack = <<>>]

\* "Simple check: is piece attacked but not defended?"
\* A variant of is_piece_hanging_simple that does not look for a defender.
is_piece_attacked_simple(b, row, col) ==
    LET piece == get_piece(b, row, col)
    IN /\ piece # NoPiece
       /\ is_square_attacked(b, row, col, opposite(piece.color))

is_piece_hanging_simple(b, row, col) ==
    LET piece == get_piece(b, row, col)
    IN /\ piece # NoPiece
       /\ is_square_attacked(b, row, col, opposite(piece.color))
       /\ ~is_square_attacked(b, row, col, piece.color)

\* The squares in the order "for row in range(8): for col in range(8)".
square_order == [i \in 1..64 |-> <<(i - 1) \div 8, (i - 1) % 8>>]

\* The hanging pieces of a colour on grid b, in that order.
hanging_pieces(b, color) ==
    SelectSeq(square_order,
              LAMBDA s : /\ get_piece(b, s[1], s[2]).color = color
                         /\ is_piece_hanging_simple(b, s[1], s[2]))

update_hanging_pieces_cache(self) ==
    [self EXCEPT
       !.cached_hanging_pieces_white = hanging_pieces(self.board, WHITE),
       !.cached_hanging_pieces_black = hanging_pieces(self.board, BLACK),
       !.hanging_pieces_cache_valid = TRUE]

get_hanging_pieces(self, color) ==
    LET s1 == IF ~self.hanging_pieces_cache_valid
              THEN update_hanging_pieces_cache(self)
              ELSE self
    IN [ret |-> IF color = WHITE THEN s1.cached_hanging_pieces_white
                ELSE s1.cached_hanging_pieces_black,
        self |-> s1]

invalidate_hanging_pieces_cache(self) ==
    [self EXCEPT !.hanging_pieces_cache_valid = FALSE,
                 !.exchange_cache_valid = FALSE,
                 !.knight_fork_cache_valid = FALSE]

-----------------------------------------------------------------------------
(* Exchange evaluation *)

get_pawn_attacks(row, col, color) ==
    LET direction == IF color = WHITE THEN -1 ELSE 1
    IN {<<row + direction, col + dc>> : dc \in
           {dc \in {-1, 1} : is_valid_square(row + direction, col + dc)}}

get_king_attacks(row, col, color) ==
    {<<row + d[1], col + d[2]>> : d \in
        {d \in king_offsets : is_valid_square(row + d[1], col + d[2])}}

\* The squares the piece on (row, col) attacks: the move generators for
\* rook, knight, bishop and queen, the attack patterns for pawn and king.
get_piece_attacks(b, row, col) ==
    LET piece == get_piece(b, row, col)
    IN CASE piece.type = PAWN -> get_pawn_attacks(row, col, piece.color)
         [] piece.type = ROOK -> get_rook_moves(b, row, col, piece.color)
         [] piece.type = KNIGHT -> get_knight_moves(b, row, col, piece.color)
         [] piece.type = BISHOP -> get_bishop_moves(b, row, col, piece.color)
         [] piece.type = QUEEN -> get_queen_moves(b, row, col, piece.color)
         [] piece.type = KING -> get_king_attacks(row, col, piece.color)
         [] OTHER -> {}

\* The pieces of attacker_color that attack the target, in scan order.
get_attackers(b, target_row, target_col, attacker_color) ==
    SelectSeq(square_order,
              LAMBDA s : /\ get_piece(b, s[1], s[2]).color = attacker_color
                         /\ <<target_row, target_col>>
                               \in get_piece_attacks(b, s[1], s[2]))

\* A variant of get_attackers_if_empty that scans with the target piece in
\* place.
get_attackers_if_occupied(b, target_row, target_col, attacker_color) ==
    get_attackers(b, target_row, target_col, attacker_color)

\* The target is emptied for the scan and put back afterwards.
get_attackers_if_empty(b, target_row, target_col, attacker_color) ==
    get_attackers(set_piece(b, target_row, target_col, NoPiece),
                  target_row, target_col, attacker_color)

\* A variant of compute_attackers_defenders that scans for defenders with
\* the target piece in place.
compute_attackers_defenders_in_place(b, target_row, target_col) ==
    LET target_piece == get_piece(b, target_row, target_col)
    IN IF target_piece = NoPiece
       THEN <<get_attackers(b, target_row, target_col, WHITE)
                 \o get_attackers(b, target_row, target_col, BLACK), <<>>>>
       ELSE <<get_attackers(b, target_row, target_col,
                            opposite(target_piece.color)),
              SelectSeq(get_attackers(b, target_row, target_col,
                                      target_piece.color),
                        LAMBDA pos : pos # <<target_row, target_col>>)>>

compute_attackers_defenders(b, target_row, target_col) ==
    LET target_piece == get_piece(b, target_row, target_col)
    IN IF target_piece = NoPiece
       THEN <<get_attackers(b, target_row, target_col, WHITE)
                 \o get_attackers(b, target_row, target_col, BLACK), <<>>>>
       ELSE <<get_attackers(b, target_row, target_col,
                            opposite(target_piece.color)),
              SelectSeq(get_attackers_if_empty(b, target_row, target_col,
                                               target_piece.color),
                        LAMBDA pos : pos # <<target_row, target_col>>)>>

\* A variant of restore_target that leaves the square as it was emptied.
restore_target_skipped(b, target_row, target_col, original_piece) == b

\* "Restore original piece"
restore_target(b, target_row, target_col, original_piece) ==
    set_piece(b, target_row, target_col, original_piece)

\* The grid _get_attackers_if_empty leaves: the target emptied, then put
\* back.
after_attackers_if_empty(b, target_row, target_col) ==
    LET original_piece == get_piece(b, target_row, target_col)
        emptied == set_piece(b, target_row, target_col, NoPiece)
    IN restore_target(emptied, target_row, target_col, original_piece)

\* The live grid when the scan of _update_exchange_cache reaches square
\* number i of square_order: every occupied square before it has been
\* emptied and put back by _get_attackers_if_empty, which touches no other
\* square.
exchange_scan(b, i) ==
    [r \in 1..8 |-> [c \in 1..8 |->
        IF (r - 1) * 8 + c < i /\ b[r][c] # NoPiece
        THEN after_attackers_if_empty(b, r - 1, c - 1)[r][c]
        ELSE b[r][c]]]

update_exchange_cache(self) ==
    LET occupied == {s \in AllSquares :
                        get_piece(self.board, s[1], s[2]) # NoPiece}
        computed == [s \in occupied |->
                        compute_attackers_defenders(
                            exchange_scan(self.board, s[1] * 8 + s[2] + 1),
                            s[1], s[2])]
    IN [self EXCEPT
          !.board = exchange_scan(self.board, 65),
          !.cached_attackers_defenders = computed,
          !.cached_interesting_squares =
              SelectSeq(square_order,
                        LAMBDA s : s \in occupied /\ Len(computed[s][1]) > 0),
          !.exchange_cache_valid = TRUE]

get_tactically_interesting_squares(self) ==
    LET s1 == IF ~self.exchange_cache_valid
              THEN update_exchange_cache(self)
              ELSE self
    IN [ret |-> s1.cached_interesting_squares, self |-> s1]

\* "self._cached_attackers_defenders.get((target_row, target_col), ([], []))"
get_all_attackers_and_defenders(self, target_row, target_col) ==
    LET s1 == IF ~self.exchange_cache_valid
              THEN update_exchange_cache(self)
              ELSE self
        key == <<target_row, target_col>>
    IN [ret |-> IF key \in DOMAIN s1.cached_attackers_defenders
                THEN s1.cached_attackers_defenders[key]
                ELSE <<<<>>, <<>>>>,
        self |-> s1]

-----------------------------------------------------------------------------
(* Knight forks *)

player_has_knights(b, color) ==
    \E s \in AllSquares : get_piece(b, s[1], s[2]) # NoPiece
                          /\ get_piece(b, s[1], s[2]).color = color
                          /\ get_piece(b, s[1], s[2]).type = KNIGHT

\* A knight of knight_color on the square would attack two or more of the
\* enemy's king, queen and rooks.
would_knight_fork_from_square(b, knight_row, knight_col, knight_color) ==
    LET knight_attacks ==
            {<<knight_row + d[1], knight_col + d[2]>> : d \in
                {d \in knight_offsets :
                    is_valid_square(knight_row + d[1], knight_col + d[2])}}
        high_value_pieces == {KING, QUEEN, ROOK}
        attacked_enemy_pieces ==
            Cardinality({a \in knight_attacks :
                /\ get_piece(b, a[1], a[2]) # NoPiece
                /\ get_piece(b, a[1], a[2]).color = opposite(knight_color)
                /\ get_piece(b, a[1], a[2]).type \in high_value_pieces})
    IN attacked_enemy_pieces >= 2

\* A variant of knight_fork_squares that does not ask for a knight.
knight_fork_squares_without_knights(b, color) ==
    SelectSeq(square_order,
              LAMBDA s : /\ would_knight_fork_from_square(b, s[1], s[2], color)
                         /\ \/ get_piece(b, s[1], s[2]) = NoPiece
                            \/ get_piece(b, s[1], s[2]).color = opposite(color))

\* The fork squares of a colour on grid b, in scan order.
knight_fork_squares(b, color) ==
    SelectSeq(square_order,
              LAMBDA s : /\ player_has_knights(b, color)
                         /\ would_knight_fork_from_square(b, s[1], s[2], color)
                         /\ \/ get_piece(b, s[1], s[2]) = NoPiece
                            \/ get_piece(b, s[1], s[2]).color = opposite(color))

update_knight_fork_cache(self) ==
    [self EXCEPT
       !.cached_knight_fork_squares_white = knight_fork_squares(self.board, WHITE),
       !.cached_knight_fork_squares_black = knight_fork_squares(self.board, BLACK),
       !.knight_fork_cache_valid = TRUE]

get_knight_fork_squares(self, color) ==
    LET s1 == IF ~self.knight_fork_cache_valid
              THEN update_knight_fork_cache(self)
              ELSE self
    IN [ret |-> IF color = WHITE THEN s1.cached_knight_fork_squares_white
                ELSE s1.cached_knight_fork_squares_black,
        self |-> s1]

-----------------------------------------------------------------------------
(* The legality filter on the live grid: the trial move and its undoing *)

\* A variant of restore_original_state that leaves the destination empty.
restore_without_captured(b, piece, captured_piece, from_row, from_col, to_row, to_col) ==
    set_piece(set_piece(b, from_row, from_col, piece), to_row, to_col, NoPiece)

\* "Restore original state" of _is_move_legal.
restore_original_state(b, piece, captured_piece, from_row, from_col, to_row, to_col) ==
    set_piece(set_piece(b, from_row, from_col, piece),
              to_row, to_col, captured_piece)

\* _is_move_legal as it runs on the grid: its answer and the grid it leaves.
is_move_legal_in_place(b, from_row, from_col, to_row, to_col) ==
    LET piece == get_piece(b, from_row, from_col)
        captured_piece == get_piece(b, to_row, to_col)
        tried == set_piece(set_piece(b, to_row, to_col, piece),
                           from_row, from_col, NoPiece)
    IN [is_legal |-> ~is_king_in_check(tried, piece.color),
        board |-> restore_original_state(tried, piece, captured_piece,
                                         from_row, from_col, to_row, to_col)]

\* The filter loop of get_possible_moves over the pseudo-legal moves still
\* to try, each trial made on the grid the one before left.
RECURSIVE filter_in_place(_, _, _, _)
filter_in_place(b, row, col, todo) ==
    IF todo = {} THEN [legal_moves |-> {}, board |-> b]
    ELSE LET m == CHOOSE m \in todo : TRUE
             trial == is_move_legal_in_place(b, row, col, m[1], m[2])
             rest == filter_in_place(trial.board, row, col, todo \ {m})
         IN [legal_moves |-> (IF trial.is_legal THEN {m} ELSE {})
                                \cup rest.legal_moves,
             board |-> rest.board]

\* get_possible_moves as it runs on the grid.
get_possible_moves_in_place(b, cr, ep, row, col) ==
    IF get_piece(b, row, col) = NoPiece
    THEN [legal_moves |-> {}, board |-> b]
    ELSE filter_in_place(b, row, col, pseudo_moves(b, cr, ep, row, col))

\* The scan of is_checkmate and is_stalemate from square number i on: it
\* stops at the first piece of the colour that has a legal move.
RECURSIVE scan_in_place(_, _, _, _, _)
scan_in_place(b, cr, ep, color, i) ==
    IF i > 64 THEN [found |-> FALSE, board |-> b]
    ELSE LET s == square_order[i]
         IN IF get_piece(b, s[1], s[2]).color # color
            THEN scan_in_place(b, cr, ep, color, i + 1)
            ELSE LET r == get_possible_moves_in_place(b, cr, ep, s[1], s[2])
                 IN IF r.legal_moves # {}
                    THEN [found |-> TRUE, board |-> r.board]
                    ELSE scan_in_place(r.board, cr, ep, color, i + 1)

is_checkmate_in_place(b, cr, ep, color) ==
    IF ~is_king_in_check(b, color) THEN [ret |-> FALSE, board |-> b]
    ELSE LET r == scan_in_place(b, cr, ep, color, 1)
         IN [ret |-> ~r.found, board |-> r.board]

is_stalemate_in_place(b, cr, ep, color) ==
    IF is_king_in_check(b, color) THEN [ret |-> FALSE, board |-> b]
    ELSE LET r == scan_in_place(b, cr, ep, color, 1)
         IN [ret |-> ~r.found, board |-> r.board]

-----------------------------------------------------------------------------
(* Special-Move Executor *)

abs(n) == IF n < 0 THEN -n ELSE n

is_castling_move(b, from_row, from_col, to_row, to_col) ==
    /\ get_piece(b, from_row, from_col).type = KING
    /\ from_row = to_row
    /\ abs(to_col - from_col) = 2

\* Moves king and rook on grid b and clears the king's colour's rights.
execute_castling(b, cr, from_row, from_col, to_row, to_col) ==
    LET is_kingside == to_col > from_col
        king == get_piece(b, from_row, from_col)
        b1 == set_piece(set_piece(b, to_row, to_col, king),
                        from_row, from_col, NoPiece)
        rook_col == IF is_kingside THEN 7 ELSE 0
        rook_to == IF is_kingside THEN 5 ELSE 3
        rook == get_piece(b1, from_row, rook_col)
        b2 == set_piece(set_piece(b1, from_row, rook_to, rook),
                        from_row, rook_col, NoPiece)
        b3 == IF rook # NoPiece
              THEN [b2 EXCEPT ![from_row + 1][rook_to + 1].has_moved = TRUE]
              ELSE b2
        b4 == [b3 EXCEPT ![to_row + 1][to_col + 1].has_moved = TRUE]
    IN [board |-> b4, castling_rights |-> lose_all_castling_rights(cr, king.color)]

\* The regular (non-castling) branch of make_move: relocation, has_moved,
\* and the castling-rights update for king moves, rook moves and rook captures.
execute_regular(b, cr, piece, captured_piece, from_row, from_col, to_row, to_col) ==
    LET b1 == set_piece(set_piece(b, to_row, to_col, piece),
                        from_row, from_col, NoPiece)
        b2 == [b1 EXCEPT ![to_row + 1][to_col + 1].has_moved = TRUE]
        cr1 == IF piece.type = KING
               THEN lose_all_castling_rights(cr, piece.color)
               ELSE IF piece.type = ROOK /\ from_col = 0
               THEN lose_castling_right(cr, piece.color, FALSE)
               ELSE IF piece.type = ROOK /\ from_col = 7
               THEN lose_castling_right(cr, piece.color, TRUE)
               ELSE cr
        cr2 == IF captured_piece.type = ROOK /\ to_col = 0
               THEN lose_castling_right(cr1, captured_piece.color, FALSE)
               ELSE IF captured_piece.type = ROOK /\ to_col = 7
               THEN lose_castling_right(cr1, captured_piece.color, TRUE)
               ELSE cr1
    IN [board |-> b2, castling_rights |-> cr2]

\* A variant whose en-passant target is the square the pawn lands on.
special_pawn_moves_target_landing(b, is_pawn, captured_piece, from_row, from_col, to_row, to_col) ==
    IF is_pawn
    THEN [en_passant_target |->
             IF abs(to_row - from_row) = 2 THEN <<to_row, to_col>> ELSE None,
          board |->
             IF captured_piece = NoPiece /\ abs(to_col - from_col) = 1
             THEN set_piece(b, from_row, to_col, NoPiece)
             ELSE b]
    ELSE [en_passant_target |-> None, board |-> b]

\* A variant that removes the pawn from the rank behind the landing square.
special_pawn_moves_wrong_rank(b, is_pawn, captured_piece, from_row, from_col, to_row, to_col) ==
    IF is_pawn
    THEN [en_passant_target |->
             IF abs(to_row - from_row) = 2
             THEN <<from_row + ((to_row - from_row) \div 2), to_col>>
             ELSE None,
          board |->
             IF captured_piece = NoPiece /\ abs(to_col - from_col) = 1
             THEN set_piece(b, to_row + (to_row - from_row), to_col, NoPiece)
             ELSE b]
    ELSE [en_passant_target |-> None, board |-> b]

\* "Handle special pawn moves": the new en-passant target and the grid after
\* the en passant removal; is_pawn says whether the pawn branch is taken.
special_pawn_moves(b, is_pawn, captured_piece, from_row, from_col, to_row, to_col) ==
    IF is_pawn
    THEN [en_passant_target |->
             IF abs(to_row - from_row) = 2
             THEN <<from_row + ((to_row - from_row) \div 2), to_col>>
             ELSE None,
          board |->
             IF captured_piece = NoPiece /\ abs(to_col - from_col) = 1
             THEN set_piece(b, from_row, to_col, NoPiece)
             ELSE b]
    ELSE [en_passant_target |-> None, board |-> b]

\* "Update move counters".
next_halfmove_clock(clock, captured_piece, piece) ==
    IF captured_piece # NoPiece \/ piece.type = PAWN THEN 0 ELSE clock + 1

\* A variant that counts a full move when Black is to move.
next_fullmove_number_on_black(turn, number) ==
    IF turn = BLACK THEN number + 1 ELSE number

\* "if self.current_turn == Color.WHITE: self.fullmove_number += 1", with
\* turn the side to move after the switch.
next_fullmove_number(turn, number) ==
    IF turn = WHITE THEN number + 1 ELSE number

\* A variant that evaluates stalemate as "no legal move", in check or not.
finish_move_stalemate_in_check(s, piece, captured_piece, promotion, from_row, from_col, to_row, to_col) ==
    LET turn == opposite(s.current_turn)
        fullmove == next_fullmove_number(turn, s.fullmove_number)
        check == is_king_in_check(s.board, turn)
        stuck == ~has_legal_move(s.board, s.castling_rights,
                                 s.en_passant_target, turn)
    IN [s EXCEPT
          !.halfmove_clock = next_halfmove_clock(@, captured_piece, piece),
          !.current_turn = turn,
          !.fullmove_number = fullmove,
          !.is_check = check,
          !.is_in_checkmate = check /\ stuck,
          !.is_in_stalemate = stuck,
          !.move_history =
              Append(@, Move(<<from_row, from_col>>, <<to_row, to_col>>,
                             piece, captured_piece, promotion, fullmove)),
          !.last_move = <<<<from_row, from_col>>, <<to_row, to_col>>>>]

\* "Switch turns" and "Update check status" up to the Move record, common to
\* both entry points: s is the state with grid, rights and target updated.
finish_move(s, piece, captured_piece, promotion, from_row, from_col, to_row, to_col) ==
    LET turn == opposite(s.current_turn)
        fullmove == next_fullmove_number(turn, s.fullmove_number)
        check == is_king_in_check(s.board, turn)
        mate == IF check
                THEN is_checkmate(s.board, s.castling_rights,
                                  s.en_passant_target, turn)
                ELSE FALSE
        stale == IF check THEN s.is_in_stalemate
                 ELSE is_stalemate(s.board, s.castling_rights,
                                   s.en_passant_target, turn)
    IN [s EXCEPT
          !.halfmove_clock = next_halfmove_clock(@, captured_piece, piece),
          !.current_turn = turn,
          !.fullmove_number = fullmove,
          !.is_check = check,
          !.is_in_checkmate = mate,
          !.is_in_stalemate = stale,
          !.move_history =
              Append(@, Move(<<from_row, from_col>>, <<to_row, to_col>>,
                             piece, captured_piece, promotion, fullmove)),
          !.last_move = <<<<from_row, from_col>>, <<to_row, to_col>>>>]

\* A variant that does not look at whose turn it is.
move_accepted_any_turn(self, from_row, from_col, to_row, to_col) ==
    /\ <<to_row, to_col>> \in legal_moves(self, from_row, from_col)
    /\ get_piece(self.board, from_row, from_col) # NoPiece

\* A variant that accepts every destination the move generator offers,
\* without the legality filter.
move_accepted_unfiltered(self, from_row, from_col, to_row, to_col) ==
    /\ <<to_row, to_col>> \in pseudo_moves(self.board, self.castling_rights,
                                           self.en_passant_target,
                                           from_row, from_col)
    /\ get_piece(self.board, from_row, from_col) # NoPiece
    /\ get_piece(self.board, from_row, from_col).color = self.current_turn

\* The validation both entry points start with.
move_accepted(self, from_row, from_col, to_row, to_col) ==
    /\ <<to_row, to_col>> \in legal_moves(self, from_row, from_col)
    /\ get_piece(self.board, from_row, from_col) # NoPiece
    /\ get_piece(self.board, from_row, from_col).color = self.current_turn

make_move(self, from_row, from_col, to_row, to_col) ==
    IF ~move_accepted(self, from_row, from_col, to_row, to_col)
    THEN [ret |-> FALSE, self |-> self]
    ELSE
    LET piece == get_piece(self.board, from_row, from_col)
        s1 == invalidate_hanging_pieces_cache(save_state_for_undo(self))
        captured_piece == get_piece(s1.board, to_row, to_col)
        moved == IF is_castling_move(s1.board, from_row, from_col, to_row, to_col)
                 THEN execute_castling(s1.board, s1.castling_rights,
                                       from_row, from_col, to_row, to_col)
                 ELSE execute_regular(s1.board, s1.castling_rights, piece,
                                      captured_piece,
                                      from_row, from_col, to_row, to_col)
        pawn == special_pawn_moves(moved.board, piece.type = PAWN,
                                   captured_piece,
                                   from_row, from_col, to_row, to_col)
        s2 == [s1 EXCEPT !.board = pawn.board,
                         !.castling_rights = moved.castling_rights,
                         !.en_passant_target = pawn.en_passant_target]
    IN [ret |-> TRUE,
        self |-> finish_move(s2, [piece EXCEPT !.has_moved = TRUE],
                             captured_piece, NoPromotion,
                             from_row, from_col, to_row, to_col)]

\* A variant that always promotes to a queen.
make_move_with_queen(self, from_row, from_col, to_row, to_col, promotion_piece) ==
    IF ~move_accepted(self, from_row, from_col, to_row, to_col)
    THEN [ret |-> FALSE, self |-> self]
    ELSE
    LET pawn_piece == get_piece(self.board, from_row, from_col)
        s1 == save_state_for_undo(self)
        captured_piece == get_piece(s1.board, to_row, to_col)
        is_promotion ==
            /\ pawn_piece.type = PAWN
            /\ \/ (pawn_piece.color = WHITE /\ to_row = 0)
               \/ (pawn_piece.color = BLACK /\ to_row = 7)
        piece == IF is_promotion
                 THEN Piece(QUEEN, pawn_piece.color, TRUE)
                 ELSE [pawn_piece EXCEPT !.has_moved = TRUE]
        b1 == set_piece(set_piece(s1.board, to_row, to_col, piece),
                        from_row, from_col, NoPiece)
        pawn == special_pawn_moves(b1, piece.type = PAWN /\ ~is_promotion,
                                   captured_piece,
                                   from_row, from_col, to_row, to_col)
        s2 == [s1 EXCEPT !.board = pawn.board,
                         !.en_passant_target = pawn.en_passant_target]
    IN [ret |-> TRUE,
        self |-> finish_move(s2, piece, captured_piece,
                             IF is_promotion THEN promotion_piece
                             ELSE NoPromotion,
                             from_row, from_col, to_row, to_col)]

make_move_with_promotion(self, from_row, from_col, to_row, to_col, promotion_piece) ==
    IF ~move_accepted(self, from_row, from_col, to_row, to_col)
    THEN [ret |-> FALSE, self |-> self]
    ELSE
    LET pawn_piece == get_piece(self.board, from_row, from_col)
        s1 == save_state_for_undo(self)
        captured_piece == get_piece(s1.board, to_row, to_col)
        is_promotion ==
            /\ pawn_piece.type = PAWN
            /\ \/ (pawn_piece.color = WHITE /\ to_row = 0)
               \/ (pawn_piece.color = BLACK /\ to_row = 7)
        piece == IF is_promotion
                 THEN Piece(promotion_piece, pawn_piece.color, TRUE)
                 ELSE [pawn_piece EXCEPT !.has_moved = TRUE]
        b1 == set_piece(set_piece(s1.board, to_row, to_col, piece),
                        from_row, from_col, NoPiece)
        pawn == special_pawn_moves(b1, piece.type = PAWN /\ ~is_promotion,
                                   captured_piece,
                                   from_row, from_col, to_row, to_col)
        s2 == [s1 EXCEPT !.board = pawn.board,
                         !.en_passant_target = pawn.en_passant_target]
    IN [ret |-> TRUE,
        self |-> finish_move(s2, piece, captured_piece,
                             IF is_promotion THEN promotion_piece
                             ELSE NoPromotion,
                             from_row, from_col, to_row, to_col)]

\* A variant of reset_to_initial_position that keeps the stacks.
reset_keeping_stacks(self) ==
    [NewBoardState EXCEPT !.undo_stack = self.undo_stack,
                          !.redo_stack = self.redo_stack]

\* reset_to_initial_position sets every field to its value in a new
\* BoardState.
reset_to_initial_position(self) == NewBoardState

-----------------------------------------------------------------------------
(* History Manager: undo and redo *)

\* A variant that wants two snapshots.
can_undo_twice(self) == Len(self.undo_stack) > 1

can_undo(self) == Len(self.undo_stack) > 0
can_redo(self) == Len(self.redo_stack) > 0

\* A variant that leaves the castling rights as they are.
restore_fields_keeping_rights(self, snapshot) ==
    [self EXCEPT
        !.board = snapshot.board,
        !.current_turn = snapshot.current_turn,
        !.halfmove_clock = snapshot.halfmove_clock,
        !.fullmove_number = snapshot.fullmove_number,
        !.en_passant_target = snapshot.en_passant_target,
        !.is_check = snapshot.is_check,
        !.is_in_checkmate = snapshot.is_in_checkmate,
        !.is_in_stalemate = snapshot.is_in_stalemate,
        !.move_history = snapshot.move_history,
        !.last_move = snapshot.last_move]

\* A variant that leaves the move history and the last move as they are.
restore_fields_keeping_history(self, snapshot) ==
    [self EXCEPT
        !.board = snapshot.board,
        !.current_turn = snapshot.current_turn,
        !.halfmove_clock = snapshot.halfmove_clock,
        !.fullmove_number = snapshot.fullmove_number,
        !.castling_rights = snapshot.castling_rights,
        !.en_passant_target = snapshot.en_passant_target,
        !.is_check = snapshot.is_check,
        !.is_in_checkmate = snapshot.is_in_checkmate,
        !.is_in_stalemate = snapshot.is_in_stalemate]

\* "Copy all fields from previous state (except undo/redo stacks)"; the
\* cache fields are not copied either.
restore_fields(self, snapshot) ==
    [self EXCEPT
        !.board = snapshot.board,
        !.current_turn = snapshot.current_turn,
        !.halfmove_clock = snapshot.halfmove_clock,
        !.fullmove_number = snapshot.fullmove_number,
        !.castling_rights = snapshot.castling_rights,
        !.en_passant_target = snapshot.en_passant_target,
        !.is_check = snapshot.is_check,
        !.is_in_checkmate = snapshot.is_in_checkmate,
        !.is_in_stalemate = snapshot.is_in_stalemate,
        !.move_history = snapshot.move_history,
        !.last_move = snapshot.last_move]

undo_move(self) ==
    IF ~can_undo(self)
    THEN [ret |-> FALSE, self |-> self]
    ELSE
    LET current_state == [copy(self) EXCEPT !.undo_stack = <<>>,
                                            !.redo_stack = <<>>]
        previous_state == self.undo_stack[Len(self.undo_stack)]
        s1 == [self EXCEPT
                 !.redo_stack = Append(@, current_state),
                 !.undo_stack = SubSeq(@, 1, Len(@) - 1)]
    IN [ret |-> TRUE,
        self |-> restore_fields(invalidate_hanging_pieces_cache(s1),
                                previous_state)]

redo_move(self) ==
    IF ~can_redo(self)
    THEN [ret |-> FALSE, self |-> self]
    ELSE
    LET current_state == [copy(self) EXCEPT !.undo_stack = <<>>,
                                            !.redo_stack = <<>>]
        next_state == self.redo_stack[Len(self.redo_stack)]
        s1 == [self EXCEPT
                 !.undo_stack = Append(@, current_state),
                 !.redo_stack = SubSeq(@, 1, Len(@) - 1)]
    IN [ret |-> TRUE,
        self |-> restore_fields(invalidate_hanging_pieces_cache(s1),
                                next_state)]

-----------------------------------------------------------------------------
(* The caller.  Calls are drawn from scripted games played from the        *)
(* starting position (the call at ply n+1 of every game whose first n      *)
(* moves are the moves played so far) and from a few probing calls that    *)
(* are tried in every state.                                               *)

File == [a |-> 0, b |-> 1, c |-> 2, d |-> 3, e |-> 4, f |-> 5, g |-> 6, h |-> 7]

\* The square of a file letter and a rank number, e.g. sq("e", 2) = (6, 4).
sq(file, rank) == <<8 - rank, File[file]>>

Call(name, from, to, promotion_piece) ==
    [op |-> name, from |-> from, to |-> to, promotion_piece |-> promotion_piece]

mm(f1, r1, f2, r2) == Call("make_move", sq(f1, r1), sq(f2, r2), NoPromotion)
mp(f1, r1, f2, r2, type) ==
    Call("make_move_with_promotion", sq(f1, r1), sq(f2, r2), type)

\* 1.e4 d5 2.e5 f5 3.exf6 (en passant) exf6, with the capture also tried
\* through make_move_with_promotion and declined for 3.Nf3.
EnPassantOpening == <<mm("e", 2, "e", 4), mm("d", 7, "d", 5),
                      mm("e", 4, "e", 5), mm("f", 7, "f", 5)>>
EnPassantGames ==
    {EnPassantOpening \o <<mm("e", 5, "f", 6), mm("e", 7, "f", 6)>>,
     EnPassantOpening \o <<mp("e", 5, "f", 6, QUEEN)>>,
     EnPassantOpening \o <<mm("e", 5, "d", 6)>>,
     EnPassantOpening \o <<mm("g", 1, "f", 3), mm("g", 8, "f", 6),
                           mm("e", 5, "f", 6)>>}

\* 1.e4 e5 2.Nf3 Nf6 3.Bc4 Bc5, then castling, king and rook moves through
\* either entry point.
CastlingOpening == <<mm("e", 2, "e", 4), mm("e", 7, "e", 5),
                     mm("g", 1, "f", 3), mm("g", 8, "f", 6),
                     mm("f", 1, "c", 4), mm("f", 8, "c", 5)>>
CastlingGames ==
    {CastlingOpening \o <<mm("e", 1, "g", 1), mm("e", 8, "g", 8)>>,
     CastlingOpening \o <<mp("e", 1, "g", 1, QUEEN)>>,
     CastlingOpening \o <<mm("h", 1, "g", 1), mm("e", 8, "e", 7),
                          mm("g", 1, "h", 1), mm("e", 7, "e", 8),
                          mm("e", 1, "g", 1)>>,
     CastlingOpening \o <<mp("e", 1, "e", 2, QUEEN), mp("h", 8, "g", 8, QUEEN),
                          mm("e", 2, "g", 2)>>,
     CastlingOpening \o <<mm("c", 4, "f", 7), mm("e", 8, "f", 7),
                          mm("f", 3, "e", 5)>>}

\* 1.h4 g5 2.hxg5 Nf6 3.g6 a6 4.g7 a5, then the pawn reaches the back rank
\* with and without capture, through either entry point.
PromotionOpening == <<mm("h", 2, "h", 4), mm("g", 7, "g", 5),
                      mm("h", 4, "g", 5), mm("g", 8, "f", 6),
                      mm("g", 5, "g", 6), mm("a", 7, "a", 6),
                      mm("g", 6, "g", 7), mm("a", 6, "a", 5)>>
PromotionGames ==
    {PromotionOpening \o <<mp("g", 7, "g", 8, QUEEN), mm("f", 6, "g", 8)>>,
     PromotionOpening \o <<mp("g", 7, "g", 8, KNIGHT)>>,
     PromotionOpening \o <<mm("g", 7, "g", 8)>>,
     PromotionOpening \o <<mp("g", 7, "h", 8, ROOK), mm("e", 7, "e", 6)>>,
     PromotionOpening \o <<mm("g", 7, "f", 8), mm("e", 8, "f", 8)>>}

\* 1.e4 c6 2.e5 Qa5 3.Ke2 a6 4.Kf3 b6 5.Kg4 Bb7 6.Kg5 d5 7.exd6: the white
\* king and the black queen share the fifth rank with only the two pawns
\* between them.
PinnedEnPassantGame ==
    <<mm("e", 2, "e", 4), mm("c", 7, "c", 6), mm("e", 4, "e", 5),
      mm("d", 8, "a", 5), mm("e", 1, "e", 2), mm("a", 7, "a", 6),
      mm("e", 2, "f", 3), mm("b", 7, "b", 6), mm("f", 3, "g", 4),
      mm("c", 8, "b", 7), mm("g", 4, "g", 5), mm("d", 7, "d", 5),
      mm("e", 5, "d", 6)>>

\* Calls for a piece of the side that is not to move: White moves twice,
\* Black moves first, Black answers 1.e4 with a white pawn.
OutOfTurnGames ==
    {<<mm("e", 2, "e", 4), mm("d", 2, "d", 4)>>,
     <<mm("e", 7, "e", 5)>>,
     <<mm("e", 2, "e", 4), mp("d", 2, "e", 3, QUEEN)>>}

\* 1.d4 Nc6 2.Bf4 Na5 3.Qd3 Nc4 4.Nc3 clears White's queenside; then
\* 4...Na3 attacks b1 only, 4...Nb6 attacks none of b1, c1, d1, and White
\* asks to castle queenside.
QueensideOpening == <<mm("d", 2, "d", 4), mm("b", 8, "c", 6),
                      mm("c", 1, "f", 4), mm("c", 6, "a", 5),
                      mm("d", 1, "d", 3), mm("a", 5, "c", 4),
                      mm("b", 1, "c", 3)>>
QueensideGames ==
    {QueensideOpening \o <<mm("c", 4, "a", 3), mm("e", 1, "c", 1)>>,
     QueensideOpening \o <<mm("c", 4, "b", 6), mm("e", 1, "c", 1)>>}

Games == EnPassantGames \cup CastlingGames \cup PromotionGames
           \cup {PinnedEnPassantGame} \cup OutOfTurnGames
           \cup QueensideGames

\* Scholar's mate, 1.e4 e5 2.Bc4 Nc6 3.Qh5 Nf6 4.Qxf7, the last move through
\* either entry point.
ScholarsMate == <<mm("e", 2, "e", 4), mm("e", 7, "e", 5),
                  mm("f", 1, "c", 4), mm("b", 8, "c", 6),
                  mm("d", 1, "h", 5), mm("g", 8, "f", 6),
                  mm("h", 5, "f", 7)>>

\* 1.e3 a5 2.Qh5 Ra6 3.Qxa5 h5 4.h4 Rah6 5.Qxc7 f6 6.Qxd7+ Kf7 7.Qxb7 Qd3
\* 8.Qxb8 Qh7 9.Qxc8 Kg6 10.Qe6: Black is not in check and cannot move.
StalemateGame == <<mm("e", 2, "e", 3), mm("a", 7, "a", 5),
                   mm("d", 1, "h", 5), mm("a", 8, "a", 6),
                   mm("h", 5, "a", 5), mm("h", 7, "h", 5),
                   mm("h", 2, "h", 4), mm("a", 6, "h", 6),
                   mm("a", 5, "c", 7), mm("f", 7, "f", 6),
                   mm("c", 7, "d", 7), mm("e", 8, "f", 7),
                   mm("d", 7, "b", 7), mm("d", 8, "d", 3),
                   mm("b", 7, "b", 8), mm("d", 3, "h", 7),
                   mm("b", 8, "c", 8), mm("f", 7, "g", 6),
                   mm("c", 8, "e", 6)>>

\* 1.e4 h6 2.e5 h5 3.Ke2 h4 4.Ke3 a6 5.Ke4 d5+: the pawn that gives check
\* has just passed the pawn on e5, which may take it en passant (6.exd6).
EnPassantEvasionGame ==
    <<mm("e", 2, "e", 4), mm("h", 7, "h", 6), mm("e", 4, "e", 5),
      mm("h", 6, "h", 5), mm("e", 1, "e", 2), mm("h", 5, "h", 4),
      mm("e", 2, "e", 3), mm("a", 7, "a", 6), mm("e", 3, "e", 4),
      mm("d", 7, "d", 5), mm("e", 5, "d", 6)>>

\* The games that end the game, with replies tried after the end.
EndingGames ==
    {ScholarsMate \o <<mm("e", 8, "f", 7)>>,
     SubSeq(ScholarsMate, 1, 6) \o <<mp("h", 5, "f", 7, QUEEN),
                                     mp("e", 8, "e", 7, QUEEN)>>,
     StalemateGame \o <<mm("g", 6, "g", 5)>>,
     EnPassantEvasionGame}

\* Both sides castle, then the queen's knights go out and back (White's
\* return through make_move_with_promotion) until LongGameLen plies are
\* played: more successive moves than the undo stack holds.
LongGameLen == 52
KnightCycle == <<mm("b", 1, "c", 3), mm("b", 8, "c", 6),
                 mp("c", 3, "b", 1, QUEEN), mm("c", 6, "b", 8)>>
LongGame ==
    CastlingOpening \o <<mm("e", 1, "g", 1), mm("e", 8, "g", 8)>>
      \o [i \in 1..(LongGameLen - 8) |-> KnightCycle[((i - 1) % 4) + 1]]

\* Calls tried in every state, none of which can succeed: from an empty
\* square, from and to squares off the board, and to a square the piece
\* cannot reach.
Probes ==
    {mm("a", 4, "a", 5),
     Call("make_move", <<-1, 4>>, <<0, 4>>, NoPromotion),
     Call("make_move", <<6, 0>>, <<8, 0>>, NoPromotion),
     mm("a", 1, "a", 3),
     mp("a", 4, "a", 5, QUEEN),
     Call("make_move_with_promotion", <<7, 8>>, <<7, 7>>, QUEEN)}

\* The games of G whose first moves are the moves played so far.
FollowedGames(G) ==
    {g \in G :
        /\ Len(g) > Len(move_history)
        /\ \A i \in 1..Len(move_history) :
              /\ g[i].from = move_history[i].from_square
              /\ g[i].to = move_history[i].to_square}

ScriptCalls(G) == {g[Len(move_history) + 1] : g \in FollowedGames(G)}
NextCalls(G) == ScriptCalls(G) \cup Probes

\* The history variables, recorded when streak is not empty.  streak holds
\* the FENs of the positions of the latest run of successive accepted moves,
\* the position the run started from first; back counts how many of these
\* moves are currently undone; rewound tells that all of them were undone at
\* some point since the run's last move.
history == <<streak, back, rewound>>

NewRun(s) == streak' = <<get_fen_position(s)>> /\ back' = 0 /\ rewound' = FALSE

MoveHistory(s) ==
    /\ streak' = Append(IF back = 0 THEN streak ELSE <<get_fen_position(Self)>>,
                        get_fen_position(s))
    /\ back' = 0
    /\ rewound' = FALSE

UndoHistory(s) ==
    IF back < Len(streak) - 1
    THEN /\ streak' = streak
         /\ back' = back + 1
         /\ rewound' = (rewound \/ back + 1 = Len(streak) - 1)
    ELSE NewRun(s)

RedoHistory(s) ==
    IF back > 0
    THEN streak' = streak /\ back' = back - 1 /\ rewound' = rewound
    ELSE NewRun(s)


Assign(s) ==
    /\ board' = s.board
    /\ current_turn' = s.current_turn
    /\ halfmove_clock' = s.halfmove_clock
    /\ fullmove_number' = s.fullmove_number
    /\ castling_rights' = s.castling_rights
    /\ en_passant_target' = s.en_passant_target
    /\ is_check' = s.is_check
    /\ is_in_checkmate' = s.is_in_checkmate
    /\ is_in_stalemate' = s.is_in_stalemate
    /\ move_history' = s.move_history
    /\ last_move' = s.last_move
    /\ undo_stack' = s.undo_stack
    /\ redo_stack' = s.redo_stack
    /\ hanging_pieces_cache_valid' = s.hanging_pieces_cache_valid
    /\ exchange_cache_valid' = s.exchange_cache_valid
    /\ knight_fork_cache_valid' = s.knight_fork_cache_valid
    /\ cached_hanging_pieces_white' = s.cached_hanging_pieces_white
    /\ cached_hanging_pieces_black' = s.cached_hanging_pieces_black
    /\ cached_interesting_squares' = s.cached_interesting_squares
    /\ cached_attackers_defenders' = s.cached_attackers_defenders
    /\ cached_knight_fork_squares_white' = s.cached_knight_fork_squares_white
    /\ cached_knight_fork_squares_black' = s.cached_knight_fork_squares_black

\* What an operation on one BoardState, leaving it as written, does to
\* another that shares the components named in shared_with_copy with it.
written_through(other, written) ==
    [f \in DOMAIN other |->
        IF f \in shared_with_copy THEN written[f] ELSE other[f]]

\* A call on the live BoardState returned r.  A preview made in the frame
\* before is still referenced during the call; the caller then drops it
\* ("preview_board_state = None").
Returns(name, r) ==
    /\ Assign(r.self)
    /\ preview_board_state' =
          IF op = "preview"
          THEN [i \in DOMAIN preview_board_state |->
                   written_through(preview_board_state[i], r.self)]
          ELSE <<>>
    /\ op' = name
    /\ ret' = r.ret

\* The history variables after a call that returned r.
Recorded(r, update) ==
    IF r.ret /\ streak # <<>> THEN update ELSE UNCHANGED history

\* The program starts in state s.
StartsAs(s) ==
    /\ board = s.board
    /\ current_turn = s.current_turn
    /\ halfmove_clock = s.halfmove_clock
    /\ fullmove_number = s.fullmove_number
    /\ castling_rights = s.castling_rights
    /\ en_passant_target = s.en_passant_target
    /\ is_check = s.is_check
    /\ is_in_checkmate = s.is_in_checkmate
    /\ is_in_stalemate = s.is_in_stalemate
    /\ move_history = s.move_history
    /\ last_move = s.last_move
    /\ undo_stack = s.undo_stack
    /\ redo_stack = s.redo_stack
    /\ hanging_pieces_cache_valid = s.hanging_pieces_cache_valid
    /\ exchange_cache_valid = s.exchange_cache_valid
    /\ knight_fork_cache_valid = s.knight_fork_cache_valid
    /\ cached_hanging_pieces_white = s.cached_hanging_pieces_white
    /\ cached_hanging_pieces_black = s.cached_hanging_pieces_black
    /\ cached_interesting_squares = s.cached_interesting_squares
    /\ cached_attackers_defenders = s.cached_attackers_defenders
    /\ cached_knight_fork_squares_white = s.cached_knight_fork_squares_white
    /\ cached_knight_fork_squares_black = s.cached_knight_fork_squares_black
    /\ preview_board_state = <<>>
    /\ op = "init"
    /\ ret = TRUE
    /\ back = 0
    /\ rewound = FALSE

\* The state after BoardState(), history not recorded.
Init == StartsAs(NewBoardState) /\ streak = <<>>

MakeMove(from, to) ==
    LET r == make_move(Self, from[1], from[2], to[1], to[2])
    IN Returns("make_move", r) /\ Recorded(r, MoveHistory(r.self))

MakeMoveWithPromotion(from, to, promotion_piece) ==
    LET r == make_move_with_promotion(Self, from[1], from[2], to[1], to[2],
                                      promotion_piece)
    IN Returns("make_move_with_promotion", r) /\ Recorded(r, MoveHistory(r.self))

UndoMove ==
    LET r == undo_move(Self)
    IN Returns("undo_move", r) /\ Recorded(r, UndoHistory(r.self))

RedoMove ==
    LET r == redo_move(Self)
    IN Returns("redo_move", r) /\ Recorded(r, RedoHistory(r.self))

CallMove(c) ==
    \/ c.op = "make_move" /\ MakeMove(c.from, c.to)
    \/ /\ c.op = "make_move_with_promotion"
       /\ MakeMoveWithPromotion(c.from, c.to, c.promotion_piece)

Next ==
    \/ \E c \in NextCalls(Games) : CallMove(c)
    \/ UndoMove
    \/ RedoMove

Spec == Init /\ [][Next]_vars

\* The same machine playing the long game.
NextLong ==
    \/ \E c \in ScriptCalls({LongGame}) : CallMove(c)
    \/ UndoMove
    \/ RedoMove

SpecLong == Init /\ [][NextLong]_vars

\* The same machine playing the games that end as well.
NextEndings ==
    \/ \E c \in NextCalls(Games \cup EndingGames) : CallMove(c)
    \/ UndoMove
    \/ RedoMove

SpecEndings == Init /\ [][NextEndings]_vars

\* The caller reads the hanging pieces of a colour.
GetHangingPieces(color) ==
    /\ Returns("get_hanging_pieces", get_hanging_pieces(Self, color))
    /\ UNCHANGED history

\* The caller's hover preview: copy the live BoardState and make the
\* candidate move on the copy.
PreviewMove(from, to) ==
    /\ move_accepted(Self, from[1], from[2], to[1], to[2])
    /\ LET r == make_move(copy(Self), from[1], from[2], to[1], to[2])
       IN /\ preview_board_state' = <<r.self>>
          /\ Assign(written_through(Self, r.self))
          /\ op' = "preview"
          /\ ret' = r.ret
    /\ UNCHANGED history

ResetToInitialPosition ==
    /\ Returns("reset_to_initial_position",
               [ret |-> None, self |-> reset_to_initial_position(Self)])
    /\ UNCHANGED history

\* 1.e4 d5 2.exd5 through either entry point: the pawn that hangs on e4
\* hangs on d5 after the capture.
HintGames ==
    {<<mm("e", 2, "e", 4), mm("d", 7, "d", 5), mp("e", 4, "d", 5, QUEEN)>>,
     <<mm("e", 2, "e", 4), mm("d", 7, "d", 5), mm("e", 4, "d", 5)>>}

\* The same machine with the caller's hint reads, hover previews and resets.
NextHints ==
    \/ \E c \in ScriptCalls(HintGames) : CallMove(c)
    \/ UndoMove
    \/ RedoMove
    \/ \E color \in Color : GetHangingPieces(color)
    \/ \E c \in ScriptCalls(HintGames) : PreviewMove(c.from, c.to)
    \/ ResetToInitialPosition

SpecHints == Init /\ [][NextHints]_vars

\* The caller asks which squares have tactical potential.
GetTacticallyInterestingSquares ==
    /\ Returns("get_tactically_interesting_squares",
               get_tactically_interesting_squares(Self))
    /\ UNCHANGED history

\* The caller asks for the attackers and defenders of a square.
GetAllAttackersAndDefenders(target) ==
    /\ Returns("get_all_attackers_and_defenders",
               get_all_attackers_and_defenders(Self, target[1], target[2]))
    /\ UNCHANGED history

\* 1.e4 d5 2.exd5 Qxd5 3.Nc3: pawns and a queen attacked, defended and
\* exchanged, the pawn capture through either entry point.
ExchangeGames ==
    {<<mm("e", 2, "e", 4), mm("d", 7, "d", 5), mm("e", 4, "d", 5),
       mm("d", 8, "d", 5), mm("b", 1, "c", 3)>>,
     <<mm("e", 2, "e", 4), mm("d", 7, "d", 5), mp("e", 4, "d", 5, QUEEN),
       mm("d", 8, "d", 5), mm("b", 1, "c", 3)>>}

\* The squares the caller asks about: those the games move from and to.
QuerySquares ==
    UNION {{g[i].from, g[i].to} : g \in ExchangeGames, i \in 1..5}

\* The machine with the caller's exchange queries.
NextExchange ==
    \/ \E c \in ScriptCalls(ExchangeGames) : CallMove(c)
    \/ GetTacticallyInterestingSquares
    \/ \E target \in QuerySquares : GetAllAttackersAndDefenders(target)

SpecExchange == Init /\ [][NextExchange]_vars

\* The caller asks where a knight of a colour would fork.
GetKnightForkSquares(color) ==
    /\ Returns("get_knight_fork_squares", get_knight_fork_squares(Self, color))
    /\ UNCHANGED history

\* 1.Nc3 d5 2.Nxd5 Qxd5 3.Nh3 Bxh3: White loses both knights, the last
\* capture through either entry point.
ForkGames ==
    {<<mm("b", 1, "c", 3), mm("d", 7, "d", 5), mm("c", 3, "d", 5),
       mm("d", 8, "d", 5), mm("g", 1, "h", 3), mm("c", 8, "h", 3)>>,
     <<mm("b", 1, "c", 3), mm("d", 7, "d", 5), mm("c", 3, "d", 5),
       mm("d", 8, "d", 5), mm("g", 1, "h", 3), mp("c", 8, "h", 3, QUEEN)>>}

\* The machine with the caller's knight fork queries.
NextForks ==
    \/ \E c \in ScriptCalls(ForkGames) : CallMove(c)
    \/ \E color \in Color : GetKnightForkSquares(color)

SpecForks == Init /\ [][NextForks]_vars

\* The caller selects a piece of the side to move and asks for its moves.
GetPossibleMoves(square) ==
    /\ get_piece(board, square[1], square[2]).color = current_turn
    /\ LET r == get_possible_moves_in_place(board, castling_rights,
                                            en_passant_target,
                                            square[1], square[2])
       IN Returns("get_possible_moves",
                  [ret |-> r.legal_moves,
                   self |-> [Self EXCEPT !.board = r.board]])
    /\ UNCHANGED history

\* Scholar's mate, then the mated king's capture of the queen, rejected;
\* the game with a check to answer by an en passant capture, the capture
\* requested through either entry point.
SelectGames ==
    {ScholarsMate \o <<mm("e", 8, "f", 7)>>,
     EnPassantEvasionGame,
     SubSeq(EnPassantEvasionGame, 1, 10) \o <<mp("e", 5, "d", 6, QUEEN)>>}

\* The machine with the caller's piece selections.
NextSelect ==
    \/ \E c \in ScriptCalls(SelectGames) : CallMove(c)
    \/ \E square \in AllSquares : GetPossibleMoves(square)

SpecSelect == Init /\ [][NextSelect]_vars

\* 1.e4 d5, Black's move through make_move_with_promotion: the pawns attack
\* each other and every piece behind them is defended.
QueryGames == {<<mm("e", 2, "e", 4), mp("d", 7, "d", 5, QUEEN)>>}

\* The squares the caller asks about: those the game moves from and to.
QueryTargets == UNION {{g[i].from, g[i].to} : g \in QueryGames, i \in 1..2}

\* The machine with all four of the caller's hint queries.
NextQueries ==
    \/ \E c \in ScriptCalls(QueryGames) : CallMove(c)
    \/ \E color \in Color : GetHangingPieces(color)
    \/ GetTacticallyInterestingSquares
    \/ \E target \in QueryTargets : GetAllAttackersAndDefenders(target)
    \/ \E color \in Color : GetKnightForkSquares(color)

SpecQueries == Init /\ [][NextQueries]_vars

\* The caller asks where the king of a colour stands, whether it is in
\* check and whether the colour may castle.
GetKingPosition(color) ==
    /\ Returns("get_king_position",
               [ret |-> get_king_position(board, color), self |-> Self])
    /\ UNCHANGED history

IsKingInCheck(color) ==
    /\ Returns("is_king_in_check",
               [ret |-> is_king_in_check(board, color), self |-> Self])
    /\ UNCHANGED history

CanCastle(color, kingside) ==
    /\ Returns("can_castle",
               [ret |-> can_castle(board, castling_rights, color, kingside),
                self |-> Self])
    /\ UNCHANGED history

\* The pinned en passant capture answered by 7...Qxg5, the queen taking the
\* king; then 8.Nh3 a5 9.Bc4 a4 empties f1 and g1.  In the second game the
\* king has walked to g5 through make_move_with_promotion.
KingCaptureGames ==
    {PinnedEnPassantGame \o
        <<mm("a", 5, "g", 5), mm("g", 1, "h", 3), mm("a", 6, "a", 5),
          mm("f", 1, "c", 4), mm("a", 5, "a", 4)>>,
     [i \in 1..13 |->
         IF i \in {5, 7, 9, 11}
         THEN Call("make_move_with_promotion", PinnedEnPassantGame[i].from,
                   PinnedEnPassantGame[i].to, QUEEN)
         ELSE PinnedEnPassantGame[i]] \o
        <<mm("a", 5, "g", 5), mm("g", 1, "h", 3), mm("a", 6, "a", 5),
          mm("f", 1, "c", 4), mm("a", 5, "a", 4)>>}

\* The machine playing the games in which a king is taken, with the
\* caller's king queries.
NextKingless ==
    \/ \E c \in ScriptCalls(KingCaptureGames) : CallMove(c)
    \/ UndoMove
    \/ RedoMove
    \/ \E color \in Color : GetKingPosition(color)
    \/ \E color \in Color : IsKingInCheck(color)
    \/ \E color \in Color, kingside \in BOOLEAN : CanCastle(color, kingside)

SpecKingless == Init /\ [][NextKingless]_vars

\* The same machine with the history variables recorded.
InitRecording == StartsAs(NewBoardState) /\ streak = <<get_fen_position(NewBoardState)>>

\* Games with an en passant capture, castling through either entry point
\* and a promotion followed by the capture of the new queen.
RecordedGames ==
    EnPassantGames
      \cup {CastlingOpening \o <<mm("e", 1, "g", 1), mm("e", 8, "g", 8)>>,
            CastlingOpening \o <<mp("e", 1, "g", 1, QUEEN)>>,
            PromotionOpening \o <<mp("g", 7, "g", 8, QUEEN), mm("f", 6, "g", 8)>>}

NextRecording ==
    \/ \E c \in ScriptCalls(RecordedGames) \cup {mm("a", 4, "a", 5)} : CallMove(c)
    \/ UndoMove
    \/ RedoMove

SpecRecording == InitRecording /\ [][NextRecording]_vars

-----------------------------------------------------------------------------
(* Properties *)

MoveOps == {"make_move", "make_move_with_promotion"}

\* The most recent call was a move and it was accepted.
MoveSucceeded == op \in MoveOps /\ ret

\* The record of the most recent move.
LastRecord == move_history[Len(move_history)]

(* C1: legality soundness.  In every reachable state, for every square s    *)
(* holding a piece of the side to move and every destination m in           *)
(* get_possible_moves(s), after make_move(s, m) has been applied the king   *)
(* of the side that just moved is not attacked by the opponent.             *)
C1_LegalitySoundness ==
    \A s \in AllSquares :
        get_piece(board, s[1], s[2]).color = current_turn =>
            \A m \in legal_moves(Self, s[1], s[2]) :
                ~is_king_in_check(
                    make_move(Self, s[1], s[2], m[1], m[2]).self.board,
                    current_turn)


\* The squares and the mover of the move a step makes, read in the state
\* before the step (last_move' is the move the step has just recorded).
StepFrom == last_move'[1]
StepTo == last_move'[2]
StepMover == get_piece(board, StepFrom[1], StepFrom[2])
StepTarget == get_piece(board, StepTo[1], StepTo[2])
StepMoved == op' \in MoveOps /\ ret'
StepRejected == op' \in MoveOps /\ ~ret'

\* The step is a pawn moving diagonally onto an empty square.
StepIsEnPassant ==
    /\ StepMover.type = PAWN
    /\ StepFrom[2] # StepTo[2]
    /\ StepTarget = NoPiece

\* What the claims call a request that must be rejected.
BadMoveRequest(from, to) ==
    \/ ~is_valid_square(from[1], from[2])
    \/ ~is_valid_square(to[1], to[2])
    \/ get_piece(board, from[1], from[2]) = NoPiece
    \/ get_piece(board, from[1], from[2]).color # current_turn
    \/ to \notin legal_moves(Self, from[1], from[2])

(* C2: make_move(from, to) returns false and leaves every field of the      *)
(* BoardState unchanged whenever there is no piece at from, the piece at    *)
(* from is not of the side to move, to is not in get_possible_moves(from),  *)
(* or a coordinate lies outside 0..7.                                       *)
C2_RejectedMoveChangesNothing ==
    \A c \in NextCalls(Games) :
        (c.op = "make_move" /\ BadMoveRequest(c.from, c.to)) =>
            make_move(Self, c.from[1], c.from[2], c.to[1], c.to[2])
                = [ret |-> FALSE, self |-> Self]

\* A make_move call has been rejected in a state with both stacks in use.
C2_Witness ==
    /\ op = "make_move" /\ ~ret
    /\ undo_stack # <<>> /\ redo_stack # <<>>
    /\ \E c \in NextCalls(Games) :
          /\ c.op = "make_move"
          /\ get_piece(board, c.from[1], c.from[2]) # NoPiece
          /\ get_piece(board, c.from[1], c.from[2]).color # current_turn
          /\ c.to \in legal_moves(Self, c.from[1], c.from[2])

(* C3: undo/redo round trip.  After N successive successful moves (N at    *)
(* most the undo cap, through either entry point) leading from S to T, N    *)
(* calls of undo_move all return true and bring get_fen_position() back to  *)
(* its value in S, and N following calls of redo_move all return true and   *)
(* bring it back to its value in T.  With streak the FENs from S to T and   *)
(* back the number of moves undone: the FEN is the one recorded for the     *)
(* position, a further undo succeeds and gives the FEN recorded one         *)
(* earlier, a redo succeeds and gives the FEN recorded one later.           *)
C3_UndoRedoRoundTrip ==
    streak # <<>> =>
        LET N == Len(streak) - 1
            here == N + 1 - back
        IN /\ get_fen_position(Self) = streak[here]
           /\ (N <= MAX_UNDO /\ back < N) =>
                  /\ undo_move(Self).ret
                  /\ get_fen_position(undo_move(Self).self) = streak[here - 1]
           /\ back > 0 =>
                  /\ redo_move(Self).ret
                  /\ get_fen_position(redo_move(Self).self) = streak[here + 1]

\* A run of at least five moves that changed the castling rights has been
\* undone to its start and redone to its end.
C3_Witness ==
    /\ op = "redo_move" /\ ret
    /\ rewound /\ back = 0
    /\ Len(streak) >= 6
    /\ get_fen_position(Self) = streak[Len(streak)]
    /\ streak[1] # streak[Len(streak)]
    /\ castling_rights # CastlingRights
    /\ undo_stack[Len(undo_stack) - Len(streak) + 2].castling_rights
          = CastlingRights

(* C4: in every state reachable by any interleaving of make_move,           *)
(* make_move_with_promotion, undo_move and redo_move the undo stack holds   *)
(* at most 50 snapshots, including states reached through redo_move, which  *)
(* pushes onto the undo stack without a cap check of its own.               *)
C4_UndoStackBounded == Len(undo_stack) <= MAX_UNDO

\* After more moves than the cap, redo_move has filled the undo stack again.
C4_Witness ==
    /\ op = "redo_move" /\ ret
    /\ Len(undo_stack) = MAX_UNDO
    /\ Len(move_history) > MAX_UNDO

(* C5: every successful make_move or make_move_with_promotion leaves the    *)
(* redo stack empty; a rejected move leaves it unchanged, a successful      *)
(* undo_move grows it by exactly one and a successful redo_move shrinks it  *)
(* by exactly one.                                                          *)
C5_RedoStackLaw ==
    [][/\ StepMoved => redo_stack' = <<>>
       /\ StepRejected => redo_stack' = redo_stack
       /\ (op' = "undo_move" /\ ret') =>
             /\ Len(redo_stack') = Len(redo_stack) + 1
             /\ SubSeq(redo_stack', 1, Len(redo_stack)) = redo_stack
       /\ (op' = "redo_move" /\ ret') =>
             /\ Len(redo_stack') = Len(redo_stack) - 1
             /\ redo_stack' = SubSeq(redo_stack, 1, Len(redo_stack) - 1)]_vars

\* Of two undone moves one has been redone.
C5_Witness ==
    /\ op = "redo_move" /\ ret
    /\ Len(redo_stack) = 1
    /\ Len(undo_stack) >= 2

(* C6: castling-rights monotonicity over moves.  Across successful          *)
(* make_move and make_move_with_promotion calls none of the four castling   *)
(* booleans changes from false to true.                                     *)
C6_CastlingRightsMonotone ==
    [][StepMoved =>
         /\ castling_rights'.white_kingside => castling_rights.white_kingside
         /\ castling_rights'.white_queenside => castling_rights.white_queenside
         /\ castling_rights'.black_kingside => castling_rights.black_kingside
         /\ castling_rights'.black_queenside => castling_rights.black_queenside]_vars

\* White has just castled, losing both rights; Black still holds both.
C6_Witness ==
    /\ MoveSucceeded
    /\ current_turn = BLACK
    /\ ~castling_rights.white_kingside /\ ~castling_rights.white_queenside
    /\ castling_rights.black_kingside /\ castling_rights.black_queenside
    /\ get_piece(board, 7, 6).type = KING
    /\ get_piece(board, 7, 5).type = ROOK

(* C7: halfmove clock law, for both entry points.  Immediately after every  *)
(* successful move the halfmove clock is 0 if the piece that moved was a    *)
(* pawn (including a pawn that promotes on this move) or the move captured  *)
(* a piece (including an en passant capture), and otherwise equals its      *)
(* value before the move plus 1.                                            *)
C7_HalfmoveClockLaw ==
    [][StepMoved =>
         halfmove_clock' =
            IF StepMover.type = PAWN \/ StepTarget # NoPiece
            THEN 0 ELSE halfmove_clock + 1]_vars

(* C8: every successful move flips current_turn to the other colour, and    *)
(* fullmove_number increases by exactly 1 when the new side to move is      *)
(* White and is unchanged when it is Black; a rejected move changes         *)
(* neither.                                                                 *)
C8_TurnAndFullmove ==
    [][/\ StepMoved =>
            /\ current_turn' = opposite(current_turn)
            /\ current_turn' = WHITE => fullmove_number' = fullmove_number + 1
            /\ current_turn' = BLACK => fullmove_number' = fullmove_number
       /\ StepRejected =>
            /\ current_turn' = current_turn
            /\ fullmove_number' = fullmove_number]_vars

\* Black has just completed the second full move.
C8_Witness ==
    /\ MoveSucceeded
    /\ current_turn = WHITE
    /\ fullmove_number = 3
    /\ Len(move_history) = 4

(* C9: en-passant target lifetime.  After every successful move (either     *)
(* entry point) en_passant_target is the skipped midpoint square if that    *)
(* move was a two-square pawn advance and is None otherwise; so a target    *)
(* set by one move is no longer set after the very next successful move,    *)
(* whether or not that move was the en passant capture.                     *)
C9_EnPassantTargetLifetime ==
    [][StepMoved =>
         /\ en_passant_target' =
               IF StepMover.type = PAWN /\ abs(StepTo[1] - StepFrom[1]) = 2
               THEN <<(StepFrom[1] + StepTo[1]) \div 2, StepTo[2]>>
               ELSE None
         /\ en_passant_target # None =>
               en_passant_target' # en_passant_target]_vars

\* A knight move has followed a two-square pawn advance whose target was
\* open to capture, and the target is gone.
C9_Witness ==
    /\ MoveSucceeded
    /\ en_passant_target = None
    /\ Len(move_history) >= 5
    /\ LastRecord.piece.type = KNIGHT
    /\ LET before == move_history[Len(move_history) - 1]
       IN /\ before.piece.type = PAWN
          /\ abs(before.to_square[1] - before.from_square[1]) = 2
          /\ get_piece(board, before.to_square[1], before.to_square[2] - 1)
                = Piece(PAWN, WHITE, TRUE)

(* C10: en passant capture.  When a pawn moves diagonally onto the empty    *)
(* en-passant target square, after the move the destination holds the       *)
(* capturing pawn, the origin is empty, and the enemy pawn on the square    *)
(* (origin row, destination column) has been removed; no other square       *)
(* changes.                                                                 *)
C10_EnPassantCapture ==
    [][(StepMoved /\ StepIsEnPassant /\ StepTo = en_passant_target) =>
         /\ get_piece(board, StepFrom[1], StepTo[2])
               = Piece(PAWN, opposite(StepMover.color), TRUE)
         /\ get_piece(board', StepTo[1], StepTo[2])
               = Piece(PAWN, StepMover.color, TRUE)
         /\ get_piece(board', StepFrom[1], StepFrom[2]) = NoPiece
         /\ get_piece(board', StepFrom[1], StepTo[2]) = NoPiece
         /\ \A s \in AllSquares \ {StepFrom, StepTo, <<StepFrom[1], StepTo[2]>>} :
               get_piece(board', s[1], s[2]) = get_piece(board, s[1], s[2])]_vars

\* After 1.e4 d5 2.e5 f5 3.exf6: the white pawn stands on f6 and f5 is empty.
C10_Witness ==
    /\ MoveSucceeded
    /\ last_move = <<sq("e", 5), sq("f", 6)>>
    /\ LastRecord.captured_piece = NoPiece
    /\ get_piece(board, 2, 5) = Piece(PAWN, WHITE, TRUE)
    /\ get_piece(board, 3, 5) = NoPiece
    /\ get_piece(board, 3, 3) = Piece(PAWN, BLACK, TRUE)

(* C11: castling execution through make_move.  When a king moves exactly   *)
(* two files along its own rank, after the move the king stands on the      *)
(* g-file (kingside) or c-file (queenside), the rook has moved from the     *)
(* h-file to the f-file (kingside) or from the a-file to the d-file         *)
(* (queenside) on the same rank, the king's and rook's origin squares are   *)
(* empty, both castling rights of the moving colour are false, and the      *)
(* other colour's rights are unchanged.                                     *)
C11_CastlingExecution ==
    [][(/\ op' = "make_move" /\ ret'
        /\ StepMover.type = KING
        /\ StepFrom[1] = StepTo[1]
        /\ abs(StepTo[2] - StepFrom[2]) = 2) =>
         LET row == StepFrom[1]
             color == StepMover.color
             kingside == StepTo[2] > StepFrom[2]
             rook_from == IF kingside THEN 7 ELSE 0
             rook_to == IF kingside THEN 5 ELSE 3
         IN /\ StepTo[2] = (IF kingside THEN 6 ELSE 2)
            /\ get_piece(board', row, StepTo[2]) = Piece(KING, color, TRUE)
            /\ get_piece(board, row, rook_from).type = ROOK
            /\ get_piece(board, row, rook_from).color = color
            /\ get_piece(board', row, rook_to) = Piece(ROOK, color, TRUE)
            /\ get_piece(board', row, StepFrom[2]) = NoPiece
            /\ get_piece(board', row, rook_from) = NoPiece
            /\ ~rights_can_castle(castling_rights', color, TRUE)
            /\ ~rights_can_castle(castling_rights', color, FALSE)
            /\ \A side \in BOOLEAN :
                  rights_can_castle(castling_rights', opposite(color), side)
                     = rights_can_castle(castling_rights, opposite(color), side)]_vars

(* C12: can_castle(color, kingside) returns true if and only if the         *)
(* corresponding castling right is still held, the king of that colour is   *)
(* not in check, every square strictly between king and rook is empty       *)
(* (f, g kingside; b, c, d queenside), and every square the king passes     *)
(* through including its destination (f, g kingside; d, c queenside) is     *)
(* not attacked by the opponent; no other square's attack status matters.   *)
C12_CanCastle ==
    \A color \in Color, kingside \in BOOLEAN :
        LET king_row == IF color = WHITE THEN 7 ELSE 0
            between == IF kingside THEN {5, 6} ELSE {1, 2, 3}
            passed == IF kingside THEN {5, 6} ELSE {3, 2}
        IN can_castle(board, castling_rights, color, kingside)
             = (/\ rights_can_castle(castling_rights, color, kingside)
                /\ ~is_king_in_check(board, color)
                /\ \A col \in between : get_piece(board, king_row, col) = NoPiece
                /\ \A col \in passed :
                      ~is_square_attacked(board, king_row, col, opposite(color)))

\* No piece of the side to move has a legal move.
NoLegalMove ==
    \A s \in AllSquares :
        get_piece(board, s[1], s[2]).color = current_turn =>
            legal_moves(Self, s[1], s[2]) = {}

\* The king of the side to move is attacked by the opponent.
KingAttacked ==
    \E s \in AllSquares :
        /\ get_piece(board, s[1], s[2]).type = KING
        /\ get_piece(board, s[1], s[2]).color = current_turn
        /\ is_square_attacked(board, s[1], s[2], opposite(current_turn))

(* C13: status flags are coherent in every reachable state.  is_check       *)
(* equals "the king of the side to move is attacked by the opponent",       *)
(* is_in_checkmate equals "that king is attacked and no piece of the side   *)
(* to move has a legal move", is_in_stalemate equals "that king is not      *)
(* attacked and no piece of the side to move has a legal move".             *)
C13_StatusFlagsCoherent ==
    /\ is_check = KingAttacked
    /\ is_in_checkmate = (KingAttacked /\ NoLegalMove)
    /\ is_in_stalemate = (~KingAttacked /\ NoLegalMove)

\* Black has been mated and the mate has been undone and redone.
C13_Witness ==
    /\ op = "redo_move" /\ ret
    /\ current_turn = BLACK
    /\ KingAttacked /\ NoLegalMove
    /\ is_check /\ is_in_checkmate /\ ~is_in_stalemate

(* C14: is_in_checkmate and is_in_stalemate are never both true in any      *)
(* reachable state; in particular, after a move that leaves the side to     *)
(* move with its king not attacked and no legal move for any of its         *)
(* pieces, is_in_stalemate is true and is_in_checkmate is false.            *)
C14_MateAndStalemateExclusive ==
    /\ ~(is_in_checkmate /\ is_in_stalemate)
    /\ (MoveSucceeded /\ ~KingAttacked /\ NoLegalMove) =>
           (is_in_stalemate /\ ~is_in_checkmate)

\* After 10.Qe6 Black is not in check and has no legal move.
C14_Witness ==
    /\ MoveSucceeded
    /\ Len(move_history) = Len(StalemateGame)
    /\ last_move = <<sq("c", 8), sq("e", 6)>>
    /\ ~KingAttacked /\ NoLegalMove
    /\ is_in_stalemate

(* C15: cache coherence.  After any sequence of make_move,                  *)
(* make_move_with_promotion, undo_move, redo_move and                       *)
(* reset_to_initial_position, a hint query returns exactly what a fresh     *)
(* computation on the current grid would return; here for                   *)
(* get_hanging_pieces(color).                                               *)
C15_CacheCoherence ==
    \A color \in Color :
        get_hanging_pieces(Self, color).ret = hanging_pieces(board, color)

\* The result of a scripted call in the current state.
Result(c) ==
    IF c.op = "make_move"
    THEN make_move(Self, c.from[1], c.from[2], c.to[1], c.to[2])
    ELSE make_move_with_promotion(Self, c.from[1], c.from[2], c.to[1], c.to[2],
                                  c.promotion_piece)

\* The call moves a pawn to its back rank.
ArrivesOnBackRank(c) ==
    LET mover == get_piece(board, c.from[1], c.from[2])
    IN /\ mover.type = PAWN
       /\ \/ (mover.color = WHITE /\ c.to[1] = 0)
          \/ (mover.color = BLACK /\ c.to[1] = 7)

(* C16: promotion.  When make_move_with_promotion(from, to, T) succeeds     *)
(* for a pawn arriving on its back rank, the destination afterwards holds   *)
(* a piece of type T of the pawn's colour with has_moved true, the origin   *)
(* is empty, en_passant_target is None, and the appended Move record has    *)
(* promotion = T; for every other successful call the record's promotion    *)
(* is None and the moved piece keeps its type.                              *)
C16_Promotion ==
    \A c \in NextCalls(Games) :
        LET mover == get_piece(board, c.from[1], c.from[2])
            after == Result(c).self
            record == after.move_history[Len(after.move_history)]
        IN Result(c).ret =>
             IF c.op = "make_move_with_promotion" /\ ArrivesOnBackRank(c)
             THEN /\ get_piece(after.board, c.to[1], c.to[2])
                       = Piece(c.promotion_piece, mover.color, TRUE)
                  /\ get_piece(after.board, c.from[1], c.from[2]) = NoPiece
                  /\ after.en_passant_target = None
                  /\ record.promotion = c.promotion_piece
             ELSE /\ record.promotion = NoPromotion
                  /\ get_piece(after.board, c.to[1], c.to[2]).type = mover.type

\* The white pawn has promoted to a knight on g8.
C16_Witness ==
    /\ op = "make_move_with_promotion" /\ ret
    /\ last_move = <<sq("g", 7), sq("g", 8)>>
    /\ LastRecord.promotion = KNIGHT
    /\ get_piece(board, 0, 6) = Piece(KNIGHT, WHITE, TRUE)
    /\ get_piece(board, 1, 6) = NoPiece

(* C17: make_move_with_promotion is equivalent to make_move on              *)
(* non-promoting moves.  From any reachable state, for any (from, to) that  *)
(* is not a pawn arriving on its back rank, both calls return the same      *)
(* boolean and produce the same resulting state.                            *)
C17_EntryPointsEquivalent ==
    \A c \in NextCalls(Games), promotion_piece \in PieceType :
        ~ArrivesOnBackRank(c) =>
            make_move_with_promotion(Self, c.from[1], c.from[2],
                                     c.to[1], c.to[2], promotion_piece)
               = make_move(Self, c.from[1], c.from[2], c.to[1], c.to[2])

(* C18: undo_move on an empty undo stack returns false and changes no       *)
(* field; redo_move on an empty redo stack returns false and changes no     *)
(* field; can_undo()/can_redo() are true exactly when the respective stack  *)
(* is non-empty.                                                            *)
C18_EmptyStackNoOp ==
    /\ undo_stack = <<>> => undo_move(Self) = [ret |-> FALSE, self |-> Self]
    /\ redo_stack = <<>> => redo_move(Self) = [ret |-> FALSE, self |-> Self]
    /\ can_undo(Self) = (undo_stack # <<>>)
    /\ can_redo(Self) = (redo_stack # <<>>)

\* undo_move has failed on an empty undo stack with moves left to redo.
C18_Witness ==
    /\ op = "undo_move" /\ ~ret
    /\ undo_stack = <<>>
    /\ Len(redo_stack) >= 2
    /\ ~can_undo(Self) /\ can_redo(Self)

ScholarsMatePlayed(k) ==
    /\ Len(move_history) = k
    /\ \A i \in 1..k :
          /\ move_history[i].from_square = ScholarsMate[i].from
          /\ move_history[i].to_square = ScholarsMate[i].to

(* C20: Scholar's mate.  From the initial position the move sequence        *)
(* e2-e4, e7-e5, f1-c4, b8-c6, d1-h5, g8-f6, h5xf7 is accepted move by      *)
(* move (each make_move returns true) and ends with Black to move,          *)
(* is_check true, is_in_checkmate true and is_in_stalemate false.           *)
C20_ScholarsMate ==
    \A k \in 0..Len(ScholarsMate) :
        ScholarsMatePlayed(k) =>
            IF k < Len(ScholarsMate)
            THEN make_move(Self, ScholarsMate[k + 1].from[1],
                           ScholarsMate[k + 1].from[2],
                           ScholarsMate[k + 1].to[1],
                           ScholarsMate[k + 1].to[2]).ret
            ELSE /\ current_turn = BLACK
                 /\ is_check
                 /\ is_in_checkmate
                 /\ ~is_in_stalemate

\* make_move has just accepted 4.Qxf7 and Black is mated.
C20_Witness ==
    /\ op = "make_move" /\ ret
    /\ ScholarsMatePlayed(Len(ScholarsMate))
    /\ LastRecord.captured_piece # NoPiece
    /\ get_piece(board, 1, 5) = Piece(QUEEN, WHITE, TRUE)
    /\ is_in_checkmate

(* C21: a freshly constructed BoardState has get_fen_position() equal to    *)
(* "rnbqkbnr/pppppppp/8/8/8/8/PPPPPPPP/RNBQKBNR w KQkq - 0 1".               *)
C21_InitialFen ==
    op = "init" =>
        get_fen_position(Self)
           = "rnbqkbnr/pppppppp/8/8/8/8/PPPPPPPP/RNBQKBNR w KQkq - 0 1"

\* The BoardState has just been constructed.
C21_Witness ==
    /\ op = "init"
    /\ move_history = <<>> /\ undo_stack = <<>>
    /\ get_piece(board, 7, 4) = Piece(KING, WHITE, FALSE)
    /\ get_piece(board, 0, 3) = Piece(QUEEN, BLACK, FALSE)

(* C22: after any sequence of operations, reset_to_initial_position()       *)
(* yields a state indistinguishable from a freshly constructed BoardState:  *)
(* the starting grid, White to move, halfmove clock 0, fullmove number 1,   *)
(* all four castling rights true, no en-passant target, all status flags    *)
(* false, empty move history, no last move, empty undo and redo stacks,     *)
(* and all three caches invalid.                                            *)
C22_ResetIsFresh ==
    op = "reset_to_initial_position" =>
        /\ board = setup_initial_position
        /\ current_turn = WHITE
        /\ halfmove_clock = 0
        /\ fullmove_number = 1
        /\ \A color \in Color, kingside \in BOOLEAN :
              rights_can_castle(castling_rights, color, kingside)
        /\ en_passant_target = None
        /\ ~is_check /\ ~is_in_checkmate /\ ~is_in_stalemate
        /\ move_history = <<>>
        /\ last_move = None
        /\ undo_stack = <<>> /\ redo_stack = <<>>
        /\ ~hanging_pieces_cache_valid
        /\ ~exchange_cache_valid
        /\ ~knight_fork_cache_valid
        /\ Self = NewBoardState

\* The reset follows a hover preview of the third move of a game: the copy
\* still shows the game that the reset has wiped from the live BoardState.
C22_Witness ==
    /\ op = "reset_to_initial_position"
    /\ preview_board_state # <<>>
    /\ Len(preview_board_state[1].move_history) = 3
    /\ Len(preview_board_state[1].undo_stack) = 3
    /\ move_history = <<>> /\ undo_stack = <<>>
    /\ board = setup_initial_position

\* The parts of str between the occurrences of the character sep.
SplitAt(str, sep) ==
    LET n == Len(str)
        seps == {i \in 1..n : SubSeq(str, i, i) = sep}
        before(i) == Cardinality({x \in seps : x < i})
        nth(j) == CHOOSE i \in seps : before(i) = j - 1
        count == Cardinality(seps)
    IN [j \in 1..(count + 1) |->
           SubSeq(str, IF j = 1 THEN 1 ELSE nth(j - 1) + 1,
                       IF j = count + 1 THEN n ELSE nth(j) - 1)]

RunLength ==
    [d \in {"1", "2", "3", "4", "5", "6", "7", "8"} |->
        CASE d = "1" -> 1 [] d = "2" -> 2 [] d = "3" -> 3 [] d = "4" -> 4
          [] d = "5" -> 5 [] d = "6" -> 6 [] d = "7" -> 7 [] d = "8" -> 8]

\* A written rank read back: a digit stands for that many empty squares.
RECURSIVE ReadRank(_)
ReadRank(str) ==
    IF str = "" THEN <<>>
    ELSE IF Head(str) \in DOMAIN RunLength
         THEN [i \in 1..RunLength[Head(str)] |-> "."] \o ReadRank(Tail(str))
         ELSE <<Head(str)>> \o ReadRank(Tail(str))

\* No two digits follow each other: every run of empty squares is one number.
RECURSIVE RunsAreWhole(_)
RunsAreWhole(str) ==
    \/ Len(str) < 2
    \/ /\ ~(Head(str) \in DOMAIN RunLength
              /\ Head(Tail(str)) \in DOMAIN RunLength)
       /\ RunsAreWhole(Tail(str))

\* The letter of a square in the placement field: upper case for White,
\* lower case for Black, "." for an empty square.
SquareLetter(piece) ==
    CASE piece = NoPiece -> "."
      [] piece.color = WHITE ->
            (CASE piece.type = PAWN -> "P" [] piece.type = ROOK -> "R"
               [] piece.type = KNIGHT -> "N" [] piece.type = BISHOP -> "B"
               [] piece.type = QUEEN -> "Q" [] piece.type = KING -> "K")
      [] OTHER ->
            (CASE piece.type = PAWN -> "p" [] piece.type = ROOK -> "r"
               [] piece.type = KNIGHT -> "n" [] piece.type = BISHOP -> "b"
               [] piece.type = QUEEN -> "q" [] piece.type = KING -> "k")

FenFields == SplitAt(get_fen_position(Self), " ")
FenRanks == SplitAt(FenFields[1], "/")

(* C23: get_fen_position() always returns exactly six space-separated       *)
(* fields: the piece placement as eight '/'-separated ranks (row 0 first)   *)
(* with runs of empty squares written as their length; 'w' or 'b' for the   *)
(* side to move; the castling field as the letters of the rights that are   *)
(* true in the fixed order K, Q, k, q, or '-' when none is true; the        *)
(* en-passant target as file letter plus rank number or '-'; the halfmove   *)
(* clock; the fullmove number.                                              *)
C23_FenLayout ==
    /\ Len(FenFields) = 6
    /\ Len(FenRanks) = 8
    /\ \A r \in 1..8 :
          /\ ReadRank(FenRanks[r]) = [c \in 1..8 |-> SquareLetter(board[r][c])]
          /\ RunsAreWhole(FenRanks[r])
    /\ FenFields[2] = (IF current_turn = WHITE THEN "w" ELSE "b")
    /\ FenFields[3] =
          (IF \A color \in Color, kingside \in BOOLEAN :
                 ~rights_can_castle(castling_rights, color, kingside)
           THEN "-"
           ELSE (IF rights_can_castle(castling_rights, WHITE, TRUE)
                 THEN "K" ELSE "")
                \o (IF rights_can_castle(castling_rights, WHITE, FALSE)
                    THEN "Q" ELSE "")
                \o (IF rights_can_castle(castling_rights, BLACK, TRUE)
                    THEN "k" ELSE "")
                \o (IF rights_can_castle(castling_rights, BLACK, FALSE)
                    THEN "q" ELSE ""))
    /\ FenFields[4] =
          (IF en_passant_target = None THEN "-"
           ELSE <<"a", "b", "c", "d", "e", "f", "g", "h">>
                   [en_passant_target[2] + 1]
                \o ToString(8 - en_passant_target[1]))
    /\ FenFields[5] = ToString(halfmove_clock)
    /\ FenFields[6] = ToString(fullmove_number)

\* A position with an en-passant target and a rank with a piece between two
\* runs of empty squares, Black to move.
C23_Witness ==
    /\ en_passant_target # None
    /\ FenFields[4] # "-"
    /\ FenFields[2] = "b"
    /\ \E r \in 1..8 : Len(FenRanks[r]) = 3 /\ RunsAreWhole(FenRanks[r])
                        /\ Head(FenRanks[r]) \in DOMAIN RunLength

\* The squares of a list.
Squares(list) == {list[i] : i \in DOMAIN list}

Between(from, to) ==
    LET dr == to[1] - from[1]
        dc == to[2] - from[2]
        n == IF abs(dr) > abs(dc) THEN abs(dr) ELSE abs(dc)
    IN {<<from[1] + (i * dr) \div n, from[2] + (i * dc) \div n>> :
           i \in 1..(n - 1)}

\* The attack pattern of the piece on from reaches to on grid b: a pawn's
\* two forward diagonals, a knight's jumps, a king's neighbours, and for
\* rook, bishop and queen a clear line to the square.
Reaches(b, from, to) ==
    LET piece == get_piece(b, from[1], from[2])
        dr == to[1] - from[1]
        dc == to[2] - from[2]
        straight == (dr = 0) # (dc = 0)
        diagonal == abs(dr) = abs(dc) /\ dr # 0
        clear == \A s \in Between(from, to) : get_piece(b, s[1], s[2]) = NoPiece
    IN CASE piece.type = PAWN ->
              /\ dr = (IF piece.color = WHITE THEN -1 ELSE 1)
              /\ abs(dc) = 1
         [] piece.type = KNIGHT -> {abs(dr), abs(dc)} = {1, 2}
         [] piece.type = KING -> abs(dr) <= 1 /\ abs(dc) <= 1 /\ from # to
         [] piece.type = ROOK -> straight /\ clear
         [] piece.type = BISHOP -> diagonal /\ clear
         [] piece.type = QUEEN -> (straight \/ diagonal) /\ clear
         [] OTHER -> FALSE

\* The squares of the pieces of a colour whose attack pattern reaches q.
Reaching(b, color, q) ==
    {s \in AllSquares :
        /\ get_piece(b, s[1], s[2]).color = color
        /\ Reaches(b, s, q)}

HeavyTargets(b, s, color) ==
    Cardinality({d \in knight_offsets :
        /\ s[1] + d[1] \in 0..7
        /\ s[2] + d[2] \in 0..7
        /\ b[s[1] + d[1] + 1][s[2] + d[2] + 1].color = color
        /\ b[s[1] + d[1] + 1][s[2] + d[2] + 1].type \in {KING, QUEEN, ROOK}})

HasKnight(b, color) ==
    \E s \in AllSquares : b[s[1] + 1][s[2] + 1] = Piece(KNIGHT, color, TRUE)
                          \/ b[s[1] + 1][s[2] + 1] = Piece(KNIGHT, color, FALSE)

GameFields(s) ==
    [board |-> s.board, current_turn |-> s.current_turn,
     halfmove_clock |-> s.halfmove_clock,
     fullmove_number |-> s.fullmove_number,
     castling_rights |-> s.castling_rights,
     en_passant_target |-> s.en_passant_target,
     is_check |-> s.is_check, is_in_checkmate |-> s.is_in_checkmate,
     is_in_stalemate |-> s.is_in_stalemate,
     move_history |-> s.move_history, last_move |-> s.last_move]

\* The number of moves made at the top of the current line of play.
MovesMade ==
    IF redo_stack = <<>> THEN Len(move_history)
    ELSE Len(redo_stack[1].move_history)

\* 51 successive moves have been made from the initial position, one
\* snapshot has been evicted, and Len(redo_stack) undos have followed.
UndoingFrom51 ==
    /\ MovesMade = MAX_UNDO + 1
    /\ Len(undo_stack) + Len(redo_stack) = MAX_UNDO

\* The position after the first move of the long game.
AfterFirstMove ==
    make_move(NewBoardState, LongGame[1].from[1], LongGame[1].from[2],
              LongGame[1].to[1], LongGame[1].to[2]).self

(* C27: bounded undo with oldest-first eviction.  After 51 successive       *)
(* successful moves from the initial position, exactly 50 consecutive       *)
(* undo_move calls return true and the 51st returns false, and the state    *)
(* then reached is the position after the first of the 51 moves.            *)
C27_OldestEvicted ==
    UndoingFrom51 =>
        /\ undo_move(Self).ret = (Len(redo_stack) < MAX_UNDO)
        /\ Len(move_history) = MAX_UNDO + 1 - Len(redo_stack)
        /\ Len(redo_stack) = MAX_UNDO =>
              /\ undo_move(Self) = [ret |-> FALSE, self |-> Self]
              /\ GameFields(Self) = GameFields(AfterFirstMove)

\* The 51st undo after 51 moves has just failed.
C27_Witness ==
    /\ op = "undo_move" /\ ~ret
    /\ UndoingFrom51
    /\ Len(redo_stack) = MAX_UNDO
    /\ undo_stack = <<>>
    /\ Len(move_history) = 1

(* C28: once a castling right has become false it is never true again in    *)
(* any later state reached by any operation other than                      *)
(* reset_to_initial_position: neither make_move, make_move_with_promotion,  *)
(* undo_move nor redo_move ever turns one of the four castling booleans     *)
(* from false to true.                                                      *)
C28_RightsNeverRestored ==
    [][op' # "reset_to_initial_position" =>
          \A color \in Color, kingside \in BOOLEAN :
              rights_can_castle(castling_rights', color, kingside)
                 => rights_can_castle(castling_rights, color, kingside)]_vars

\* The grid after the move has actually been made: the relocation, the
\* rook's move when castling, the removal of the pawn taken en passant.
AppliedBoard(from, to) ==
    LET piece == get_piece(board, from[1], from[2])
        captured_piece == get_piece(board, to[1], to[2])
        moved == IF is_castling_move(board, from[1], from[2], to[1], to[2])
                 THEN execute_castling(board, castling_rights,
                                       from[1], from[2], to[1], to[2])
                 ELSE execute_regular(board, castling_rights, piece,
                                      captured_piece,
                                      from[1], from[2], to[1], to[2])
    IN special_pawn_moves(moved.board, piece.type = PAWN, captured_piece,
                          from[1], from[2], to[1], to[2]).board

\* The pseudo-legal destinations of the piece on s after which, the move
\* actually made, the mover's king is not attacked.
SafeMoves(s) ==
    {m \in pseudo_moves(board, castling_rights, en_passant_target, s[1], s[2]) :
        ~is_king_in_check(AppliedBoard(s, m),
                          get_piece(board, s[1], s[2]).color)}

(* C29: legality completeness.  get_possible_moves(s) contains every        *)
(* pseudo-legal destination m of the piece on s for which actually          *)
(* applying the move (with the en passant pawn removal when m is an en      *)
(* passant capture) leaves the mover's king unattacked; consequently        *)
(* is_checkmate(color) and is_stalemate(color) are false whenever such a    *)
(* move exists for any piece of color.  Stated for the side to move.        *)
C29_LegalityComplete ==
    \A s \in AllSquares :
        get_piece(board, s[1], s[2]).color = current_turn =>
            /\ SafeMoves(s) \subseteq legal_moves(Self, s[1], s[2])
            /\ SafeMoves(s) # {} =>
                  /\ ~is_checkmate(board, castling_rights, en_passant_target,
                                   current_turn)
                  /\ ~is_stalemate(board, castling_rights, en_passant_target,
                                   current_turn)

\* Every field of the BoardState except the grid.
OtherFields == [f \in DOMAIN Self \ {"board"} |-> Self[f]]

\* Run on the grid of the current state, the filter, the two scans that
\* use it and a rejected make_move leave the grid as it is and answer as
\* the legal moves say.  C30 asks for it in the state every move request
\* is made in.
FilterLeavesGrid ==
    /\ \A s \in AllSquares :
          LET r == get_possible_moves_in_place(board, castling_rights,
                                               en_passant_target, s[1], s[2])
          IN /\ r.board = board
             /\ r.legal_moves = legal_moves(Self, s[1], s[2])
    /\ \A color \in Color :
          /\ is_checkmate_in_place(board, castling_rights,
                                   en_passant_target, color)
                = [ret |-> is_checkmate(board, castling_rights,
                                        en_passant_target, color),
                   board |-> board]
          /\ is_stalemate_in_place(board, castling_rights,
                                   en_passant_target, color)
                = [ret |-> is_stalemate(board, castling_rights,
                                        en_passant_target, color),
                   board |-> board]
    /\ \A c \in ScriptCalls(SelectGames) :
          ~Result(c).ret => Result(c).self = Self

(* C30: the legality filter is side-effect free.  get_possible_moves(s),    *)
(* and therefore is_checkmate, is_stalemate and a rejected make_move,       *)
(* return with the grid identical square-for-square to the grid before      *)
(* the call and with the three cache validity flags, the cached lists,      *)
(* the stacks, clocks, rights, en-passant target and status flags           *)
(* unchanged.                                                               *)
C30_FilterSideEffectFree ==
    [][/\ op' \in MoveOps => FilterLeavesGrid
       /\ (op' = "get_possible_moves" \/ (op' \in MoveOps /\ ~ret')) =>
              /\ board' = board
              /\ OtherFields' = OtherFields]_vars

\* Black is mated; the caller has selected the king, which has two
\* captures to try and no legal move, and the grid is as it was.
C30_Witness ==
    /\ op = "get_possible_moves"
    /\ ret = {}
    /\ is_in_checkmate
    /\ pseudo_moves(board, castling_rights, en_passant_target, 0, 4) # {}
    /\ get_piece(board, 1, 5) = Piece(QUEEN, WHITE, TRUE)
    /\ get_piece(board, 0, 4) = Piece(KING, BLACK, FALSE)

\* Every stored snapshot has empty stacks of its own.
SnapshotsFlat ==
    \A stack \in {undo_stack, redo_stack} : \A i \in 1..Len(stack) :
        stack[i].undo_stack = <<>> /\ stack[i].redo_stack = <<>>

(* C31: every snapshot stored in the undo stack or the redo stack has an    *)
(* empty undo stack and an empty redo stack of its own, in every state      *)
(* reachable by make_move, make_move_with_promotion, undo_move and          *)
(* redo_move; undo_move and redo_move never copy a snapshot's stack fields  *)
(* into the live state: an undo pops one snapshot off the undo stack and    *)
(* pushes one onto the redo stack, a redo the reverse.                      *)
C31_SnapshotsHaveNoStacks ==
    [][/\ SnapshotsFlat'
       /\ (op' = "undo_move" /\ ret') =>
              /\ undo_stack' = SubSeq(undo_stack, 1, Len(undo_stack) - 1)
              /\ SubSeq(redo_stack', 1, Len(redo_stack)) = redo_stack
              /\ Len(redo_stack') = Len(redo_stack) + 1
       /\ (op' = "redo_move" /\ ret') =>
              /\ redo_stack' = SubSeq(redo_stack, 1, Len(redo_stack) - 1)
              /\ SubSeq(undo_stack', 1, Len(undo_stack)) = undo_stack
              /\ Len(undo_stack') = Len(undo_stack) + 1]_vars

\* Two moves were undone and one redone: both stacks hold snapshots taken
\* from states whose own stacks were not empty.
C31_Witness ==
    /\ op = "redo_move" /\ ret
    /\ Len(undo_stack) >= 2 /\ Len(redo_stack) >= 1
    /\ SnapshotsFlat

\* The colour has no king on the board.
KingMissing(color) ==
    \A s \in AllSquares :
        get_piece(board, s[1], s[2]) # Piece(KING, color, TRUE)
        /\ get_piece(board, s[1], s[2]) # Piece(KING, color, FALSE)

(* C32: missing-king degradation: when no king of a colour is on the board, *)
(* get_king_position(color) returns None, is_king_in_check(color) is false, *)
(* and can_castle(color, kingside) is false for both sides regardless of    *)
(* the castling rights and of which squares are empty.                      *)
C32_MissingKing ==
    \A color \in Color :
        KingMissing(color) =>
            /\ get_king_position(board, color) = None
            /\ ~is_king_in_check(board, color)
            /\ \A kingside \in BOOLEAN :
                   ~can_castle(board, castling_rights, color, kingside)

(* C33: an en passant destination is offered only to a pawn of the colour   *)
(* opposite to the pawn that just made the two-square advance: for every    *)
(* state with en_passant_target set and every pawn p, the target is in      *)
(* get_possible_moves(p) only if p is an enemy of the double-pushed pawn    *)
(* standing on that pawn's rank on an adjacent file.                        *)
C33_EnPassantOnlyForEnemy ==
    en_passant_target # None =>
        LET pushed == last_move[2]
        IN \A s \in AllSquares :
              (/\ get_piece(board, s[1], s[2]).type = PAWN
               /\ en_passant_target \in
                     get_possible_moves(board, castling_rights,
                                        en_passant_target, s[1], s[2]))
              => /\ get_piece(board, s[1], s[2]).color
                       # get_piece(board, pushed[1], pushed[2]).color
                 /\ s[1] = pushed[1]
                 /\ abs(s[2] - pushed[2]) = 1

HintOps ==
    {"get_hanging_pieces", "get_tactically_interesting_squares",
     "get_all_attackers_and_defenders", "get_knight_fork_squares"}

\* The position and its history, without the grid and the caches.
PositionFields ==
    <<current_turn, halfmove_clock, fullmove_number, castling_rights,
      en_passant_target, is_check, is_in_checkmate, is_in_stalemate,
      move_history, last_move, undo_stack, redo_stack>>

(* C34: the hint queries do not change the position: get_hanging_pieces,    *)
(* get_tactically_interesting_squares, get_all_attackers_and_defenders and  *)
(* get_knight_fork_squares return with the grid identical square-for-square *)
(* to the grid before the call (the temporary vacating of a square during   *)
(* defender computation is always undone), and with side to move, clocks,   *)
(* rights, en-passant target, status flags, history and stacks unchanged.   *)
C34_HintQueriesKeepPosition ==
    [][op' \in HintOps =>
          /\ board' = board
          /\ PositionFields' = PositionFields]_vars

\* The exchange cache was filled after 1.e4 d5 and the caller has read the
\* entry of the pawn on d5, which the pawn on e4 attacks and the queen on
\* d8 defends.
C34_Witness ==
    /\ op = "get_all_attackers_and_defenders"
    /\ exchange_cache_valid
    /\ get_piece(board, 3, 3) = Piece(PAWN, BLACK, TRUE)
    /\ <<3, 3>> \in DOMAIN cached_attackers_defenders
    /\ ret = cached_attackers_defenders[<<3, 3>>]
    /\ ret = <<<<(<<4, 4>>)>>, <<(<<0, 3>>)>>>>
    /\ Len(undo_stack) = 2

(* C35: whenever a castling right is held in a reachable state (any         *)
(* sequence of make_move, make_move_with_promotion, undo_move, redo_move    *)
(* from the initial position), the king of that colour stands on its home   *)
(* square (e-file of its back rank) and a rook of that colour stands on the *)
(* corresponding corner (h-file for kingside, a-file for queenside).        *)
C35_RightsImplyHomeSquares ==
    \A color \in Color, kingside \in BOOLEAN :
        rights_can_castle(castling_rights, color, kingside) =>
            LET king_row == IF color = BLACK THEN 0 ELSE 7
                king == get_piece(board, king_row, 4)
                rook == get_piece(board, king_row, IF kingside THEN 7 ELSE 0)
            IN /\ king.type = KING /\ king.color = color
               /\ rook.type = ROOK /\ rook.color = color

(* C36: in every state reachable from the initial position by make_move,   *)
(* make_move_with_promotion, undo_move and redo_move, each colour has       *)
(* exactly one king on the board, i.e. no accepted move ever captures a     *)
(* king.                                                                    *)
C36_OneKingEach ==
    \A color \in Color :
        Cardinality({s \in AllSquares :
                        /\ get_piece(board, s[1], s[2]).type = KING
                        /\ get_piece(board, s[1], s[2]).color = color}) = 1

\* Every move request on the board, through either entry point.
AllMoveCalls ==
    {Call("make_move", from, to, NoPromotion) :
        from \in AllSquares, to \in AllSquares}
    \cup {Call("make_move_with_promotion", c[1], c[2], c[3]) :
            c \in AllSquares \X AllSquares
                    \X {QUEEN, ROOK, BISHOP, KNIGHT}}

(* C37: in any reachable state where is_in_checkmate or is_in_stalemate is  *)
(* true, every call of make_move and make_move_with_promotion, for any      *)
(* arguments, returns false and changes nothing; such a state can only be   *)
(* left through undo_move or reset_to_initial_position.  (Every such state  *)
(* has an undo step, and the requests for all squares are tried there.)     *)
C37_GameOverIsFinal ==
    [][(is_in_checkmate \/ is_in_stalemate) =>
          /\ op' = "undo_move" =>
                 \A c \in AllMoveCalls :
                    LET r == Result(c) IN ~r.ret /\ r.self = Self
          /\ op' \in MoveOps => ~ret' /\ Self' = Self
          /\ Self' # Self => op' \in {"undo_move",
                                      "reset_to_initial_position"}]_vars

\* Black is stalemated and has asked for Kg6-g5, which was refused.
C37_Witness ==
    /\ is_in_stalemate /\ ~is_check
    /\ op = "make_move" /\ ~ret
    /\ get_piece(board, 2, 6) = Piece(KING, BLACK, TRUE)
    /\ Len(move_history) = Len(StalemateGame)

(* C38: in every state reachable from the initial position by make_move,   *)
(* make_move_with_promotion, undo_move and redo_move, the length of         *)
(* move_history equals the number of plies played, i.e.                     *)
(* 2*(fullmove_number-1) plus 1 if Black is to move, and last_move is None  *)
(* exactly when move_history is empty and otherwise equals the (from, to)   *)
(* squares of the last record.                                              *)
C38_HistoryMatchesPlies ==
    /\ Len(move_history) = 2 * (fullmove_number - 1)
                              + (IF current_turn = BLACK THEN 1 ELSE 0)
    /\ (last_move = None) <=> (move_history = <<>>)
    /\ move_history # <<>> =>
          last_move = <<move_history[Len(move_history)].from_square,
                        move_history[Len(move_history)].to_square>>

\* A move made through make_move_with_promotion has been undone after
\* three plies or more: the history is one record shorter again.
C38_Witness ==
    /\ op = "undo_move" /\ ret
    /\ Len(move_history) >= 3
    /\ Len(redo_stack) = 1
    /\ redo_stack[1].move_history[Len(move_history) + 1].promotion # NoPromotion
    /\ redo_stack[1].last_move # last_move

====
